---- MODULE Spec2Model ----
(***************************************************************************)
(* Model of the Hyperliquid TWAP ingest pipeline: the idempotent loader    *)
(* (src/etl/loader.py), the per-file state machine and the incremental     *)
(* scanner (src/etl/run.py), the row normalizer (src/etl/parser.py) and   *)
(* the read API (src/api/main.py).                                         *)
(*                                                                         *)
(* The relational store is modelled as the set of rows of table            *)
(* twap_status and the set of rows of table etl_s3_ingest_log.  A row of   *)
(* twap_status carries its key triple (twap_id, wallet, ts), one payload   *)
(* column (asset, standing for every non-key payload column, all of which  *)
(* the loader treats alike) and s3_object_key.  Column ingested_at of the  *)
(* ledger (a wall-clock reading) is not modelled.                          *)
(***************************************************************************)
EXTENDS Integers, Sequences, FiniteSets, TLC

VARIABLES
    store,          \* rows of table twap_status
    ledger,         \* rows of table etl_s3_ingest_log
    batch_size,     \* ETLConfig.BATCH_SIZE, read from the environment at start
    records,        \* the record list a caller of load_records holds
    object_key,     \* the source key that caller passes along
    rets,           \* what the caller's successive load_records calls gave
    marked,         \* per key: the mark_object_processed calls a caller made
    processed,      \* what get_processed_objects returned
    pc,             \* where the running process is
    bucket,         \* per key: the last_modified of the object in S3
    objects,        \* run_incremental: what list_objects returned
    new_objects,    \* run_incremental: the objects left after filtering
    idx,            \* run_incremental: how many of new_objects are done
    success_count,  \* run_incremental: files that succeeded
    fail_count,     \* run_incremental: files that failed
    exit_code,      \* exit status of the latest process
    outcome,        \* the latest process_s3_object call of the process
    attempted,      \* run_incremental: the keys the loop has handled
    log,            \* the info lines of main and run_incremental so far
    repaired,       \* the collaborators fail no more
    crashed,        \* the file a process died on between load and ledger
    sessions,       \* per concurrent loader: its open database session
    reply,          \* the latest request to the read API and its response
    norm            \* the latest input of the normalizer and its results

loaderVars == <<records, object_key, rets, marked>>
runVars == <<bucket, objects, new_objects, idx, success_count, fail_count,
             exit_code, outcome, attempted, log, repaired, crashed>>
otherVars == <<sessions, reply, norm>>
vars == <<store, ledger, batch_size, records, object_key, rets, marked,
          processed, pc, bucket, objects, new_objects, idx, success_count,
          fail_count, exit_code, outcome, attempted, log, repaired,
          crashed, sessions, reply, norm>>

\* ------------------------------------------------------------------ bounds

MaxRecords == 2
MaxBatchSize == 2
MaxCalls == 2
MaxModified == 2
MaxPuts == 1

\* ------------------------------------------------------------------ values

NULL == "NULL"

Keys == {"A", "B", "C"}

\* The keys the callers of load_records parse record lists under.
LoadKeys == {"A", "B"}

\* The rows a parsed file can hold, before the source key is attached: two
\* rows with the same key triple and different payloads, two more triples,
\* and a row whose twap_id column was absent from the file.
InputRows ==
    { [twap_id |-> "t1", wallet |-> "w1", ts |-> 1, asset |-> "BTC"],
      [twap_id |-> "t1", wallet |-> "w1", ts |-> 1, asset |-> "ETH"],
      [twap_id |-> "t1", wallet |-> "w2", ts |-> 1, asset |-> "BTC"],
      [twap_id |-> "t2", wallet |-> "w1", ts |-> 2, asset |-> "BTC"],
      [twap_id |-> NULL, wallet |-> "w1", ts |-> 1, asset |-> "BTC"] }

WithKey(row, k) ==
    [twap_id |-> row.twap_id, wallet |-> row.wallet, ts |-> row.ts,
     asset |-> row.asset, s3_object_key |-> k]

SeqsUpTo(S, n) == UNION { [1..m -> S] : m \in 0..n }

\* Record lists as parse_parquet(content, k) returns them: every record
\* carries the key it was parsed under.
RecordLists(k) == SeqsUpTo({ WithKey(row, k) : row \in InputRows }, MaxRecords)

Triple(r) == <<r.twap_id, r.wallet, r.ts>>

\* ------------------------------------------------------------------ twap_status

\* PrimaryKeyConstraint('twap_id', 'wallet', 'ts'): the columns are NOT NULL.
NotNullViolated(r) == r.twap_id = NULL \/ r.wallet = NULL

ConflictAlways(tbl, r) == FALSE

ConflictSameFile(tbl, r) ==
    \E x \in tbl :
        Triple(x) = Triple(r) /\ x.s3_object_key = r.s3_object_key

\* on_conflict_do_nothing(index_elements=["twap_id", "wallet", "ts"]): the
\* arbiter index finds a row with the same key triple.
Conflict(tbl, r) == \E x \in tbl : Triple(x) = Triple(r)

OnConflictDoUpdate(tbl, r) == { x \in tbl : Triple(x) # Triple(r) } \cup {r}

\* DO NOTHING: the conflicting row is skipped, the table is left alone.
OnConflict(tbl, r) == tbl

RECURSIVE InsertRows(_, _, _, _)
\* The rows of one multi-row INSERT, taken in order: a NOT NULL violation
\* fails the statement, a conflicting row (with a stored row or with a row
\* this statement or this transaction inserted before) is skipped.
InsertRows(tbl, batch, i, inserted) ==
    IF i > Len(batch)
    THEN [table |-> tbl, error |-> FALSE, inserted |-> inserted]
    ELSE IF NotNullViolated(batch[i])
    THEN [table |-> tbl, error |-> TRUE, inserted |-> 0]
    ELSE IF Conflict(tbl, batch[i])
    THEN InsertRows(OnConflict(tbl, batch[i]), batch, i + 1, inserted)
    ELSE InsertRows(tbl \cup {batch[i]}, batch, i + 1, inserted + 1)

RowCountOfInput(res, batch) == Len(batch)

\* result.rowcount: the rows the statement inserted.
RowCount(res, batch) == res.inserted

\* session.execute(stmt) for one batch.
Execute(tbl, batch) ==
    LET res == InsertRows(tbl, batch, 1, 0)
    IN  [table |-> res.table, error |-> res.error,
         rowcount |-> RowCount(res, batch)]

NumBatchesFloor(recs, bs) == Len(recs) \div bs

\* range(0, len(records), batch_size)
NumBatches(recs, bs) == (Len(recs) + bs - 1) \div bs

\* records[i:i + batch_size] for the j-th value of i
Batch(recs, bs, j) ==
    SubSeq(recs, (j - 1) * bs + 1,
           IF j * bs < Len(recs) THEN j * bs ELSE Len(recs))

NoRollback(before, view) == view

\* session.rollback(): the transaction's statements are undone.
Rollback(before, view) == before

RECURSIVE RunBatches(_, _, _, _, _, _, _)
\* The loop of load_records from its j-th batch on, inside one transaction
\* whose view of the table is `view`.  failAt names the statement the
\* database fails for a reason of its own (0: none; NumBatches + 1: the
\* commit).
RunBatches(before, view, recs, bs, j, failAt, rows_inserted) ==
    IF j > NumBatches(recs, bs)
    THEN IF failAt = j
         THEN [table |-> Rollback(before, view), raised |-> TRUE, rows |-> 0]
         ELSE [table |-> view, raised |-> FALSE, rows |-> rows_inserted]
    ELSE LET res == Execute(view, Batch(recs, bs, j))
         IN  IF failAt = j
             THEN [table |-> Rollback(before, view), raised |-> TRUE, rows |-> 0]
             ELSE IF res.error
             THEN [table |-> Rollback(before, res.table), raised |-> TRUE,
                   rows |-> 0]
             ELSE RunBatches(before, res.table, recs, bs, j + 1, failAt,
                             rows_inserted + res.rowcount)

\* TWAPLoader.load_records(records, s3_object_key); the key argument is
\* not used by the code: each record carries its own.
load_records(tbl, recs, k, bs, failAt) ==
    IF recs = <<>>
    THEN [table |-> tbl, raised |-> FALSE, rows |-> 0]
    ELSE RunBatches(tbl, tbl, recs, bs, 1, failAt, 0)

\* ------------------------------------------------------------------ a caller of load_records

\* A caller obtains a record list parsed under key k.
NewRecords ==
    /\ pc = "idle"
    /\ pc' = "loading"
    /\ \E k \in LoadKeys : \E recs \in RecordLists(k) :
          /\ records' = recs
          /\ object_key' = k
    /\ rets' = <<>>
    /\ UNCHANGED <<otherVars, store, ledger, batch_size, marked, processed, runVars>>

\* The caller calls load_records(records, object_key), again with the same
\* arguments after the first call.
LoadRecords ==
    /\ pc = "loading"
    /\ Len(rets) < MaxCalls
    /\ \E failAt \in 0..(NumBatches(records, batch_size) + 1) :
          LET res == load_records(store, records, object_key, batch_size, failAt)
          IN  /\ store' = res.table
              /\ rets' = Append(rets, [raised |-> res.raised, rows |-> res.rows])
    /\ UNCHANGED <<otherVars, ledger, batch_size, records, object_key, marked, processed, pc,
                 runVars>>

\* The caller is done with this record list.
CallerDone ==
    /\ pc = "loading"
    /\ rets # <<>>
    /\ pc' = "idle"
    /\ records' = <<>>
    /\ rets' = <<>>
    /\ UNCHANGED <<otherVars, store, ledger, batch_size, object_key, marked, processed,
                 runVars>>

InitCommon ==
    /\ store = {}
    /\ ledger = {}
    /\ batch_size \in 1..MaxBatchSize
    /\ records = <<>>
    /\ object_key = "A"
    /\ rets = <<>>
    /\ marked = [k \in LoadKeys |-> [calls |-> 0, last |-> {}]]
    /\ processed = {}
    /\ pc = "idle"
    /\ bucket = [k \in Keys |-> 1]
    /\ objects = <<>>
    /\ new_objects = <<>>
    /\ idx = 0
    /\ success_count = 0
    /\ fail_count = 0
    /\ exit_code = 0
    /\ outcome = [key |-> NULL, last_modified |-> 0, stage |-> "none",
                  success |-> FALSE, rows |-> 0, writes |-> <<>>,
                  replaced |-> {}]
    /\ attempted = <<>>
    /\ log = <<>>
    /\ repaired = FALSE
    /\ crashed = [key |-> NULL, last_modified |-> 0]
    /\ sessions = <<>>
    /\ reply = [kind |-> "none"]

InitLoad == InitCommon /\ norm = <<>>

NextLoad == NewRecords \/ LoadRecords \/ CallerDone

SpecLoad == InitLoad /\ [][NextLoad]_vars

\* ------------------------------------------------------------------ claims on load_records

CountKey(tbl, k) == Cardinality({ x \in tbl : x.s3_object_key = k })

StoredTriples(tbl) == { Triple(x) : x \in tbl }

\* The step is the n-th call of the caller on its record list, and returns.
CallReturned(n) ==
    /\ pc = "loading"
    /\ Len(rets) = n - 1
    /\ Len(rets') = n
    /\ ~rets'[n].raised

\* C1 as stated: for a non-empty record list loaded twice in succession
\* under the same key, the second call returns 0 and the number of rows
\* stored under that key equals the first call's return value.
C1_ReloadCountEqualsFirstReturn ==
    [][(CallReturned(2) /\ records # <<>> /\ ~rets[1].raised)
          => /\ rets'[2].rows = 0
             /\ CountKey(store', object_key) = rets[1].rows]_vars

\* C1 amended: the first call raises the number of rows stored under the
\* key by exactly its return value, and the second call returns 0 and
\* leaves the store as it is.
C1_ReloadIdempotent ==
    [][/\ (CallReturned(1) /\ records # <<>>)
            => CountKey(store', object_key)
                 = CountKey(store, object_key) + rets'[1].rows
       /\ (CallReturned(2) /\ records # <<>> /\ ~rets[1].raised)
            => /\ rets'[2].rows = 0
               /\ store' = store]_vars

\* Two calls on a non-empty list have returned, the first inserted rows, and
\* rows of an earlier load were already stored under the key.
C1_Witness ==
    /\ Len(rets) = 2
    /\ records # <<>>
    /\ ~rets[1].raised /\ ~rets[2].raised
    /\ rets[1].rows > 0
    /\ CountKey(store, object_key) > rets[1].rows

\* C2: the store holds at most one row per (twap_id, wallet, ts) triple.
C2_UniqueTriple ==
    \A x, y \in store : Triple(x) = Triple(y) => x = y

\* A file overlapping a stored row of another file has been loaded, and a
\* load of the same caller has failed.
C2_Witness ==
    /\ Len(rets) = 2
    /\ ~rets[1].raised /\ rets[2].raised
    /\ \E i \in 1..Len(records) : \E x \in store :
          /\ Triple(x) = Triple(records[i])
          /\ x.s3_object_key # object_key

\* C3: a committed row is never changed or removed by a later load; the
\* rows read for its triple stay exactly the first-written row.
C3_FirstWriteWins ==
    [][\A x \in store :
          { y \in store' : Triple(y) = Triple(x) } = {x}]_vars

\* A record with the triple of a stored row and another payload and source
\* key has been loaded without error, and the stored row is the old one.
C3_Witness ==
    /\ rets # <<>>
    /\ ~rets[Len(rets)].raised
    /\ \E i \in 1..Len(records) : \E x \in store :
          /\ Triple(x) = Triple(records[i])
          /\ x.asset # records[i].asset
          /\ x.s3_object_key # records[i].s3_object_key

\* C4: a call that returns gives the number of distinct key triples of its
\* record list that the store did not hold before the call.
C4_ReturnsNewTriples ==
    [][\A n \in 1..MaxCalls :
          CallReturned(n)
            => rets'[n].rows
                 = Cardinality({ Triple(records[i]) : i \in 1..Len(records) }
                                 \ StoredTriples(store))]_vars

\* Two records with the same triple fell in different batches of one call,
\* which returned 1.
C4_Witness ==
    /\ batch_size = 1
    /\ Len(records) = 2
    /\ Triple(records[1]) = Triple(records[2])
    /\ records[1] # records[2]
    /\ Len(rets) = 1
    /\ ~rets[1].raised
    /\ rets[1].rows = 1

\* C5: a call that raises leaves the store exactly as it was before the
\* call.
C5_AtomicAcrossBatches ==
    [][\A n \in 1..MaxCalls :
          (pc = "loading" /\ Len(rets) = n - 1 /\ Len(rets') = n
             /\ rets'[n].raised)
            => store' = store]_vars

\* The second batch of a call failed after its first batch had inserted a
\* row the store did not hold; the row is not in the store.
C5_Witness ==
    /\ batch_size = 1
    /\ Len(records) = 2
    /\ records[1].twap_id # NULL
    /\ records[2].twap_id = NULL
    /\ Len(rets) = 1
    /\ rets[1].raised
    /\ Triple(records[1]) \notin StoredTriples(store)

\* ------------------------------------------------------------------ etl_s3_ingest_log

\* The error texts process_s3_object writes (the exception's own message is
\* written e), and NULL for none.
ErrorTexts ==
    {NULL, "Download error: e", "Parse error: e", "Load error: e",
     "Unexpected error: e"}

\* The values(...) of the ledger statement.
Entry(k, last_modified, rows_ingested, error_text) ==
    [s3_object_key |-> k, last_modified |-> last_modified,
     rows_ingested |-> rows_ingested, error_text |-> error_text]

EntriesOf(tbl, k) == { x \in tbl : x.s3_object_key = k }

UpsertAppend(tbl, e) == tbl \cup {e}

UpsertKeepsRows(tbl, e) ==
    LET old == EntriesOf(tbl, e.s3_object_key)
    IN  IF old = {}
        THEN tbl \cup {e}
        ELSE (tbl \ old)
                \cup {[e EXCEPT !.rows_ingested =
                                   (CHOOSE o \in old : TRUE).rows_ingested]}

UpsertDoNothing(tbl, e) ==
    IF EntriesOf(tbl, e.s3_object_key) = {} THEN tbl \cup {e} ELSE tbl

\* INSERT ... ON CONFLICT (s3_object_key) DO UPDATE SET last_modified,
\* rows_ingested, error_text, ingested_at: the entry of the key, if any, is
\* replaced.
Upsert(tbl, e) == (tbl \ EntriesOf(tbl, e.s3_object_key)) \cup {e}

\* TWAPLoader.mark_object_processed; `fail`: the statement or the commit
\* raises, and the session is rolled back.
mark_object_processed(tbl, k, last_modified, rows_ingested, error_text, fail) ==
    IF fail
    THEN [table |-> tbl, raised |-> TRUE]
    ELSE [table |-> Upsert(tbl, Entry(k, last_modified, rows_ingested,
                                     error_text)),
          raised |-> FALSE]

AllLoggedKeys(tbl) == { x.s3_object_key : x \in tbl }

\* TWAPLoader.get_processed_objects:
\* SELECT s3_object_key FROM etl_s3_ingest_log WHERE error_text IS NULL
get_processed_objects(tbl) ==
    { x.s3_object_key : x \in { y \in tbl : y.error_text = NULL } }

\* ------------------------------------------------------------------ a caller of the ledger operations

Min(a, b) == IF a < b THEN a ELSE b

\* A caller calls mark_object_processed with arguments of its choice.
MarkObjectProcessed ==
    /\ pc = "idle"
    /\ \E k \in LoadKeys, lm \in 1..MaxModified, rows \in 0..MaxRecords,
          err \in {NULL, "Load error: e"}, fail \in BOOLEAN :
          LET res == mark_object_processed(ledger, k, lm, rows, err, fail)
          IN  /\ ledger' = res.table
              /\ marked' =
                    IF res.raised THEN marked
                    ELSE [marked EXCEPT
                            ![k] = [calls |-> Min(marked[k].calls + 1, MaxCalls),
                                    last |-> {Entry(k, lm, rows, err)}]]
    /\ UNCHANGED <<otherVars, store, batch_size, records, object_key, rets, processed, pc,
                 runVars>>

\* A caller calls get_processed_objects.
GetProcessedObjects ==
    /\ pc = "idle"
    /\ processed' = get_processed_objects(ledger)
    /\ pc' = "got"
    /\ UNCHANGED <<otherVars, store, ledger, batch_size, loaderVars, runVars>>

\* The caller has used the set.
GetDone ==
    /\ pc = "got"
    /\ pc' = "idle"
    /\ processed' = {}
    /\ UNCHANGED <<otherVars, store, ledger, batch_size, loaderVars, runVars>>

InitLedger == InitLoad

NextLedger == MarkObjectProcessed \/ GetProcessedObjects \/ GetDone

SpecLedger == InitLedger /\ [][NextLedger]_vars

\* ------------------------------------------------------------------ claims on the ledger operations

\* C7: the ledger holds at most one entry per source key, and the entry
\* carries the last_modified, rows_ingested and error_text of the most
\* recent mark_object_processed call for the key that did not raise.
C7_OneEntryLatestCall ==
    \A k \in LoadKeys : EntriesOf(ledger, k) = marked[k].last

\* A key was marked at least twice, last with an error, and another key at
\* least twice, last without.
C7_Witness ==
    /\ marked["A"].calls >= 2
    /\ marked["B"].calls >= 2
    /\ \E e \in EntriesOf(ledger, "A") : e.error_text # NULL
    /\ \E e \in EntriesOf(ledger, "B") :
          e.error_text = NULL /\ e.rows_ingested > 0

\* C8: get_processed_objects returns exactly the keys whose latest mark
\* carries a null error_text.
C8_ProcessedAreNullError ==
    pc = "got" =>
        processed = { k \in LoadKeys :
                        /\ marked[k].last # {}
                        /\ \A e \in marked[k].last : e.error_text = NULL }

\* The set was read with one key marked with rows and no error, and one
\* key whose latest mark carries an error after an earlier mark.
C8_Witness ==
    /\ pc = "got"
    /\ processed = {"A"}
    /\ \E e \in marked["A"].last : e.rows_ingested > 0
    /\ marked["B"].calls >= 2
    /\ \E e \in marked["B"].last : e.error_text # NULL

\* ------------------------------------------------------------------ parser

\* A row of a parquet file: the mapped columns twap_id, state_user,
\* state_timestamp and state_coin.  A timestamp value has a kind (the
\* Python type it arrives as: "unix" for an int or float, "str",
\* "datetime", "Timestamp", or "unsupported" for any other type), the
\* reading v of its clock, whether it carries a timezone (aware) and the
\* offset tz of its clock from UTC (0 when it carries none).  A Unix
\* number has no clock of its own: v counts from the epoch.
TsValue(kind, v, aware, tz) ==
    [kind |-> kind, v |-> v, aware |-> aware, tz |-> tz]

RawRow(id, user, kind, t, coin) ==
    [twap_id |-> id, state_user |-> user,
     state_timestamp |-> TsValue(kind, t, FALSE, 0), state_coin |-> coin]

\* The isinstance branches of _normalize_timestamp: the datetime the value
\* is turned into (wall: its clock reading, tz: its tzinfo).
to_pydatetime(t) ==
    CASE t.kind \in {"Timestamp", "datetime", "str"} ->
           [raised |-> FALSE, wall |-> t.v, aware |-> t.aware, tz |-> t.tz]
      [] t.kind = "unix" ->
           [raised |-> FALSE, wall |-> t.v, aware |-> TRUE, tz |-> 0]
      [] OTHER ->
           [raised |-> TRUE, wall |-> 0, aware |-> FALSE, tz |-> 0]

replace_tzinfo_utc(dt) == dt.wall

\* "Ensure UTC timezone": a naive datetime is taken as UTC
\* (dt.replace(tzinfo=timezone.utc)), an aware one is converted
\* (dt.astimezone(timezone.utc)).  The result is the UTC clock reading.
ensure_utc(dt) == IF ~dt.aware THEN dt.wall ELSE dt.wall - dt.tz

\* TWAPParser._normalize_timestamp
normalize_timestamp(t) ==
    LET dt == to_pydatetime(t)
    IN  IF dt.raised
        THEN [raised |-> TRUE, value |-> 0]
        ELSE [raised |-> FALSE, value |-> ensure_utc(dt)]

row_to_record_versioning(row, k) ==
    LET t == normalize_timestamp(row.state_timestamp).value
        stored == { x \in store : x.twap_id = row.twap_id
                                    /\ x.wallet = row.state_user /\ x.ts = t }
    IN  [twap_id |-> row.twap_id, wallet |-> row.state_user,
         ts |-> IF stored = {} THEN t ELSE t + 1,
         asset |-> row.state_coin, s3_object_key |-> k]

\* TWAPParser._row_to_record
row_to_record(row, k) ==
    [twap_id |-> row.twap_id, wallet |-> row.state_user,
     ts |-> normalize_timestamp(row.state_timestamp).value,
     asset |-> row.state_coin, s3_object_key |-> k]

parse_parquet_skipping(content, k) ==
    LET good(row) == ~normalize_timestamp(row.state_timestamp).raised
        rows == SelectSeq(content, good)
    IN  [raised |-> FALSE,
         records |-> [i \in 1..Len(rows) |-> row_to_record(rows[i], k)]]

\* TWAPParser.parse_parquet: the rows in order; an exception of any row
\* propagates.
parse_parquet(content, k) ==
    IF \E i \in 1..Len(content) :
          normalize_timestamp(content[i].state_timestamp).raised
    THEN [raised |-> TRUE, records |-> <<>>]
    ELSE [raised |-> FALSE,
          records |-> [i \in 1..Len(content) |-> row_to_record(content[i], k)]]

\* ------------------------------------------------------------------ S3

\* S3 lists keys in lexicographic order.
KeyOrder == <<"A", "B", "C">>

\* The rows of the object stored under key k when its last_modified is v.
\* A: two rows, then an overwrite that changes the payload of one and adds
\* a row.  B: a row with the triple of a row of A, then a file whose
\* second row lacks twap_id.  C: a file whose second row has a timestamp
\* of an unsupported type, then an empty file.
Content(k, v) ==
    CASE k = "A" /\ v = 1 ->
           << RawRow("t1", "w1", "unix", 1, "BTC"),
              RawRow("t1", "w2", "unix", 1, "BTC") >>
      [] k = "A" /\ v # 1 ->
           << RawRow("t1", "w1", "unix", 1, "ETH"),
              RawRow("t2", "w1", "unix", 2, "BTC") >>
      [] k = "B" /\ v = 1 ->
           << RawRow("t1", "w1", "unix", 1, "ETH") >>
      [] k = "B" /\ v # 1 ->
           << RawRow("t2", "w1", "unix", 2, "ETH"),
              RawRow(NULL, "w1", "unix", 1, "BTC") >>
      [] k = "C" /\ v = 1 ->
           << RawRow("t2", "w1", "unix", 2, "BTC"),
              RawRow("t2", "w1", "unsupported", 0, "BTC") >>
      [] OTHER -> << >>

\* The --since values of a run: 0 stands for None.
Sinces == {0, 2}

\* S3Client.list_objects(since); since = 0 stands for None.
list_objects(bkt, since) ==
    LET listed(k) == since = 0 \/ ~(bkt[k] < since)
        keep == SelectSeq(KeyOrder, listed)
    IN  [i \in 1..Len(keep) |-> [key |-> keep[i], last_modified |-> bkt[keep[i]]]]

\* ------------------------------------------------------------------ process_s3_object

\* One loader.mark_object_processed call of process_s3_object: the ledger
\* after it, whether it raised, and the call added to the ledger writes
\* the handler has issued so far.
LedgerWrite(ldg, writes, k, last_modified, rows_ingested, error_text, fail) ==
    LET m == mark_object_processed(ldg, k, last_modified, rows_ingested,
                                   error_text, fail)
    IN  [ledger |-> m.table, raised |-> m.raised,
         writes |-> Append(writes, [rows_ingested |-> rows_ingested,
                                    error_text |-> error_text,
                                    raised |-> m.raised])]

CatchAllPropagates(ldg, writes, k, last_modified, mark_fail2) ==
    LET w == LedgerWrite(ldg, writes, k, last_modified, 0,
                         "Unexpected error: e", mark_fail2)
    IN  [ledger |-> w.ledger, writes |-> w.writes, success |-> FALSE,
         raised |-> w.raised]

\* The catch-all of process_s3_object: a ledger write with the text of the
\* exception that reached it; the failure of that write is logged and
\* dropped, and the result is False.
CatchAll(ldg, writes, k, last_modified, mark_fail2) ==
    LET w == LedgerWrite(ldg, writes, k, last_modified, 0,
                         "Unexpected error: e", mark_fail2)
    IN  [ledger |-> w.ledger, writes |-> w.writes, success |-> FALSE,
         raised |-> FALSE]

FailureMarkWithoutError(ldg, k, last_modified, error_text, mark_fail, mark_fail2) ==
    LET w == LedgerWrite(ldg, <<>>, k, last_modified, 0, NULL, mark_fail)
    IN  [ledger |-> w.ledger, writes |-> w.writes, success |-> FALSE,
         raised |-> FALSE]

\* A failure branch of process_s3_object: the ledger write of the branch,
\* then "return False"; an exception of that write reaches the catch-all.
FailureMark(ldg, k, last_modified, error_text, mark_fail, mark_fail2) ==
    LET w == LedgerWrite(ldg, <<>>, k, last_modified, 0, error_text,
                         mark_fail)
    IN  IF ~w.raised
        THEN [ledger |-> w.ledger, writes |-> w.writes, success |-> FALSE,
              raised |-> FALSE]
        ELSE CatchAll(w.ledger, w.writes, k, last_modified, mark_fail2)

\* The branch "if not records": the ledger write, then "return True"; an
\* exception of that write reaches the catch-all.
EmptyMark(ldg, k, last_modified, mark_fail, mark_fail2) ==
    LET w == LedgerWrite(ldg, <<>>, k, last_modified, 0, NULL, mark_fail)
    IN  IF ~w.raised
        THEN [ledger |-> w.ledger, writes |-> w.writes, success |-> TRUE,
              raised |-> FALSE]
        ELSE CatchAll(w.ledger, w.writes, k, last_modified, mark_fail2)

SuccessMarkFlips(ldg, k, last_modified, rows_inserted, mark_fail) ==
    LET w == LedgerWrite(ldg, <<>>, k, last_modified, rows_inserted, NULL,
                         mark_fail)
    IN  [ledger |-> w.ledger, writes |-> w.writes, success |-> ~w.raised,
         raised |-> FALSE]

\* After load_records returned rows_inserted: the ledger write in its own
\* try, whose exception is logged; True either way.
SuccessMark(ldg, k, last_modified, rows_inserted, mark_fail) ==
    LET w == LedgerWrite(ldg, <<>>, k, last_modified, rows_inserted, NULL,
                         mark_fail)
    IN  [ledger |-> w.ledger, writes |-> w.writes, success |-> TRUE,
         raised |-> FALSE]

\* What a process_s3_object call leaves: the store, the stage the handler
\* ended in, what load_records returned (0 when it was not called or
\* raised), and the ledger, writes, result and exception of its last branch.
Result(st, stage, rows, m) ==
    [store |-> st, stage |-> stage, rows |-> rows, ledger |-> m.ledger,
     writes |-> m.writes, success |-> m.success, raised |-> m.raised]

\* process_s3_object(s3_client, loader, object_key, last_modified) on the
\* store st and the ledger ldg.  dl_fail: download_object raises; failAt:
\* the statement of load_records the database fails; mark_fail,
\* mark_fail2: the first and the second ledger write of the call raise.
process_s3_object(st, ldg, k, last_modified, content, bs, dl_fail, failAt, mark_fail, mark_fail2) ==
    IF dl_fail
    THEN Result(st, "download", 0,
                FailureMark(ldg, k, last_modified, "Download error: e",
                            mark_fail, mark_fail2))
    ELSE LET p == parse_parquet(content, k)
         IN  IF p.raised
             THEN Result(st, "parse", 0,
                         FailureMark(ldg, k, last_modified, "Parse error: e",
                                     mark_fail, mark_fail2))
             ELSE IF p.records = <<>>
             THEN Result(st, "empty", 0,
                         EmptyMark(ldg, k, last_modified, mark_fail,
                                   mark_fail2))
             ELSE LET l == load_records(st, p.records, k, bs, failAt)
                  IN  IF l.raised
                      THEN Result(l.table, "load", 0,
                                  FailureMark(ldg, k, last_modified,
                                              "Load error: e", mark_fail,
                                              mark_fail2))
                      ELSE Result(l.table, "loaded", l.rows,
                                  SuccessMark(ldg, k, last_modified, l.rows,
                                              mark_fail))

\* The ways the collaborators of one process_s3_object call can fail, for
\* a file of the given content.  A choice that the call never consults is
\* left at its no-failure value: no statement fails after a failed
\* download, in a file that does not parse or has no row, or from the
\* statement on that holds a row without twap_id (it fails by itself), and
\* a file that loads has one ledger write only.
Faults(content, bs) ==
    LET unparsed == parse_parquet(content, NULL).raised
        nulls == { i \in 1..Len(content) : content[i].twap_id = NULL }
        last == IF unparsed \/ content = <<>>
                THEN 0
                ELSE IF nulls = {}
                THEN NumBatches(content, bs) + 1
                ELSE ((CHOOSE i \in nulls : \A j \in nulls : i <= j)
                         + bs - 1) \div bs - 1
        loads == ~unparsed /\ content # <<>> /\ nulls = {}
    IN  { f \in [dl_fail : BOOLEAN, failAt : 0..last,
                 mark_fail : BOOLEAN, mark_fail2 : BOOLEAN] :
            /\ f.dl_fail => f.failAt = 0
            /\ f.mark_fail2 => f.mark_fail
            /\ (~f.dl_fail /\ f.failAt = 0 /\ loads) => ~f.mark_fail2 }

\* The failures open to a call: none once the collaborators have been
\* repaired for good.
FaultsWhen(sound, content, bs) ==
    IF sound
    THEN { f \in Faults(content, bs) :
             ~f.dl_fail /\ f.failAt = 0 /\ ~f.mark_fail }
    ELSE Faults(content, bs)

\* ------------------------------------------------------------------ run_incremental and main

\* No process_s3_object call has returned in the current process.
NoOutcome ==
    [key |-> NULL, last_modified |-> 0, stage |-> "none", success |-> FALSE,
     rows |-> 0, writes |-> <<>>, replaced |-> {}]

\* The process_s3_object call on key k that returned res, begun on the
\* ledger ldg: `replaced` is the success entry the key had then, if any.
OutcomeOf(ldg, k, last_modified, res) ==
    [key |-> k, last_modified |-> last_modified, stage |-> res.stage,
     success |-> res.success, rows |-> res.rows, writes |-> res.writes,
     replaced |-> { e \in ldg : e.s3_object_key = k /\ e.error_text = NULL }]

\* No process has died between a load and its ledger write.
NoCrash == [key |-> NULL, last_modified |-> 0]

main_exit_swallows(raised, success) == IF success \/ raised THEN 0 ELSE 1

main_exit_zero(raised, success) == 0

\* The exit status of main: 1 from the handler of an exception that
\* reached it, else 0 or 1 with the result of the mode.
main_exit(raised, success) == IF raised THEN 1 ELSE IF success THEN 0 ELSE 1

\* An info line of main or run_incremental, with the numbers it shows.
Line(line, args) == [line |-> line, args |-> args]

LogStarting == Line("Starting incremental ETL process", <<>>)

LogNoNewObjects == Line("No new objects to process", <<>>)

LogFound(new, total) == Line("Found new objects to process", <<new, total>>)

LogCompleted(succeeded, failed) ==
    Line("ETL process completed", <<succeeded, failed>>)

LogSingle == Line("Processing single object", <<>>)

KeepAll(objs, done) == objs

\* new_objects = [obj for obj in objects if obj["key"] not in processed]
FilterNew(objs, done) ==
    LET isNew(obj) == obj.key \notin done
    IN  SelectSeq(objs, isNew)

LastObjectFirst(objs, done) == objs[Len(objs) - done]

\* for obj in new_objects: the object the loop takes after it has handled
\* `done` of them.
NextObject(objs, done) == objs[done + 1]

\* An object is overwritten in S3 between two runs: new content, a later
\* last_modified.
S3Put ==
    /\ pc = "idle"
    /\ ~repaired
    /\ Cardinality({ k \in Keys : bucket[k] # 1 }) < MaxPuts
    /\ \E k \in Keys :
          /\ bucket[k] = 1
          /\ bucket' = [bucket EXCEPT ![k] = 2]
    /\ UNCHANGED <<otherVars, store, ledger, batch_size, loaderVars, processed, pc,
                   objects, new_objects, idx, success_count, fail_count,
                   exit_code, outcome, attempted, log, repaired, crashed>>

\* main() without --object-key, with the given --since: run_incremental
\* lists the objects, reads the processed keys and filters; an empty
\* listing returns at once.
StartIncrementalSince(since) ==
    /\ pc = "idle"
    /\ LET objs == list_objects(bucket, since)
       IN  /\ objects' = objs
           /\ IF objs = <<>>
              THEN /\ processed' = {}
                   /\ new_objects' = <<>>
                   /\ log' = <<LogStarting, LogNoNewObjects>>
                   /\ pc' = "exited"
              ELSE /\ processed' = get_processed_objects(ledger)
                   /\ new_objects' = FilterNew(objs, processed')
                   /\ log' = <<LogStarting,
                               LogFound(Len(new_objects'), Len(objs))>>
                   /\ pc' = "running"
    /\ idx' = 0
    /\ success_count' = 0
    /\ fail_count' = 0
    /\ exit_code' = 0
    /\ UNCHANGED <<otherVars, store, ledger, batch_size, loaderVars, bucket, outcome,
                   attempted, repaired, crashed>>

StartIncremental == \E since \in Sinces : StartIncrementalSince(since)

\* list_objects raises, or get_processed_objects raises after a listing
\* that is not empty: the exception leaves run_incremental and reaches
\* main, which logs and exits.
StartFails ==
    /\ pc = "idle"
    /\ \E since \in Sinces, call \in {"list_objects", "get_processed_objects"} :
          call = "get_processed_objects" => list_objects(bucket, since) # <<>>
    /\ pc' = "fatal"
    /\ exit_code' = main_exit(TRUE, FALSE)
    /\ log' = <<LogStarting>>
    /\ UNCHANGED <<otherVars, store, ledger, batch_size, loaderVars, processed, bucket,
                   objects, new_objects, idx, success_count, fail_count,
                   outcome, attempted, repaired, crashed>>

\* One turn of the loop of run_incremental: process_s3_object on the next
\* object of new_objects, then the counters.  An exception leaving
\* process_s3_object would leave the loop and reach main.
ProcessNext ==
    /\ pc = "running"
    /\ idx < Len(new_objects)
    /\ LET obj == NextObject(new_objects, idx)
           content == Content(obj.key, bucket[obj.key])
       IN  \E f \in FaultsWhen(repaired, content, batch_size) :
              LET res == process_s3_object(store, ledger, obj.key,
                                           obj.last_modified, content,
                                           batch_size, f.dl_fail, f.failAt,
                                           f.mark_fail, f.mark_fail2)
              IN  /\ store' = res.store
                  /\ ledger' = res.ledger
                  /\ outcome' = OutcomeOf(ledger, obj.key, obj.last_modified,
                                          res)
                  /\ attempted' = Append(attempted, obj.key)
                  /\ IF res.raised
                     THEN /\ pc' = "fatal"
                          /\ exit_code' = main_exit(TRUE, FALSE)
                          /\ UNCHANGED <<idx, success_count, fail_count>>
                     ELSE /\ success_count' =
                                IF res.success THEN success_count + 1
                                ELSE success_count
                          /\ fail_count' =
                                IF res.success THEN fail_count
                                ELSE fail_count + 1
                          /\ idx' = idx + 1
                          /\ UNCHANGED <<pc, exit_code>>
    /\ UNCHANGED <<otherVars, batch_size, loaderVars, processed, bucket, objects,
                   new_objects, log, repaired, crashed>>

\* The loop is over: the counts are logged, run_incremental returns, its
\* locals are gone, and main falls through.
FinishRun ==
    /\ pc = "running"
    /\ idx = Len(new_objects)
    /\ pc' = "exited"
    /\ processed' = {}
    /\ objects' = <<>>
    /\ new_objects' = <<>>
    /\ idx' = 0
    /\ success_count' = 0
    /\ fail_count' = 0
    /\ outcome' = NoOutcome
    /\ attempted' = <<>>
    /\ log' = Append(log, LogCompleted(success_count, fail_count))
    /\ crashed' = IF \E i \in 1..Len(attempted) : attempted[i] = crashed.key
                  THEN NoCrash ELSE crashed
    /\ UNCHANGED <<otherVars, store, ledger, batch_size, loaderVars, bucket, exit_code,
                   repaired>>

\* main() with --object-key: get_object_metadata, then process_s3_object
\* on the named key whatever the ledger holds; exit 0 on success, else 1.
SingleObject ==
    /\ pc = "idle"
    /\ pc' = "exited"
    /\ \E k \in Keys :
          LET content == Content(k, bucket[k])
          IN  \E f \in FaultsWhen(repaired, content, batch_size) :
                 LET res == process_s3_object(store, ledger, k, bucket[k],
                                              content, batch_size, f.dl_fail,
                                              f.failAt, f.mark_fail,
                                              f.mark_fail2)
                 IN  /\ store' = res.store
                     /\ ledger' = res.ledger
                     /\ outcome' = OutcomeOf(ledger, k, bucket[k], res)
                     /\ crashed' = IF crashed.key = k THEN NoCrash
                                   ELSE crashed
                     /\ exit_code' = main_exit(res.raised, res.success)
    /\ log' = <<LogSingle>>
    /\ UNCHANGED <<otherVars, batch_size, loaderVars, processed, bucket, objects,
                   new_objects, idx, success_count, fail_count, attempted,
                   repaired>>

\* main() with --object-key when get_object_metadata raises: the
\* exception reaches main's handler before process_s3_object is called.
SingleObjectFails ==
    /\ pc = "idle"
    /\ pc' = "fatal"
    /\ exit_code' = main_exit(TRUE, FALSE)
    /\ log' = <<LogSingle>>
    /\ UNCHANGED <<otherVars, store, ledger, batch_size, loaderVars, processed, bucket,
                   objects, new_objects, idx, success_count, fail_count,
                   outcome, attempted, repaired, crashed>>

\* The process is gone; the next one starts afresh.
ProcessExit ==
    /\ pc \in {"exited", "fatal"}
    /\ pc' = "idle"
    /\ processed' = {}
    /\ objects' = <<>>
    /\ new_objects' = <<>>
    /\ idx' = 0
    /\ success_count' = 0
    /\ fail_count' = 0
    /\ exit_code' = 0
    /\ outcome' = NoOutcome
    /\ attempted' = <<>>
    /\ log' = <<>>
    /\ UNCHANGED <<otherVars, store, ledger, batch_size, loaderVars, bucket, repaired,
                   crashed>>

\* The batch size is below the size of the larger files, so that their
\* loads span two batches.
Init ==
    /\ InitLoad
    /\ batch_size = 1

Next ==
    \/ S3Put
    \/ StartIncremental
    \/ StartFails
    \/ ProcessNext
    \/ FinishRun
    \/ SingleObject
    \/ SingleObjectFails
    \/ ProcessExit

Spec == Init /\ [][Next]_vars

\* ------------------------------------------------------------------ a process that dies

\* The process is killed in a turn of the loop of run_incremental after
\* load_records has committed and before mark_object_processed runs: the
\* rows are in the store, the ledger is as before, the process is gone.
CrashAfterLoad ==
    /\ pc = "running"
    /\ idx < Len(new_objects)
    /\ LET obj == NextObject(new_objects, idx)
           p == parse_parquet(Content(obj.key, bucket[obj.key]), obj.key)
           l == load_records(store, p.records, obj.key, batch_size, 0)
       IN  /\ ~p.raised
           /\ p.records # <<>>
           /\ ~l.raised
           /\ store' = l.table
           /\ crashed' = [key |-> obj.key, last_modified |-> obj.last_modified]
    /\ pc' = "idle"
    /\ processed' = {}
    /\ objects' = <<>>
    /\ new_objects' = <<>>
    /\ idx' = 0
    /\ success_count' = 0
    /\ fail_count' = 0
    /\ outcome' = NoOutcome
    /\ attempted' = <<>>
    /\ log' = <<>>
    /\ UNCHANGED <<otherVars, ledger, batch_size, loaderVars, bucket, exit_code,
                   repaired>>

\* Incremental runs over the first objects of the bucket, any of which
\* may die between a load and its ledger write.
NextCrash ==
    \/ StartIncremental
    \/ ProcessNext
    \/ CrashAfterLoad
    \/ FinishRun
    \/ ProcessExit

SpecCrash == Init /\ [][NextCrash]_vars

\* ------------------------------------------------------------------ retries

\* From here on download_object, load_records and the ledger writes
\* succeed.
Repair ==
    /\ ~repaired
    /\ repaired' = TRUE
    /\ UNCHANGED <<otherVars, store, ledger, batch_size, loaderVars, processed, pc,
                   bucket, objects, new_objects, idx, success_count,
                   fail_count, exit_code, outcome, attempted, log, crashed>>

NextRetry ==
    \/ Repair
    \/ StartIncremental
    \/ ProcessNext
    \/ FinishRun
    \/ ProcessExit

\* What a ProcessNext step is for the loop of run_incremental: the turn
\* on the next object of new_objects is over.
Turn ==
    /\ pc = "running"
    /\ idx < Len(new_objects)
    /\ idx' = idx + 1

\* Incremental runs over the first objects of the bucket.  A process that
\* runs goes on to its end (a turn of the loop that can be taken is
\* taken, the loop ends, the process exits), and runs without --since
\* keep being started.
SpecRetry ==
    /\ Init
    /\ [][NextRetry]_vars
    /\ WF_idx(Turn)
    /\ WF_vars(FinishRun)
    /\ WF_vars(ProcessExit)
    /\ SF_vars(StartIncrementalSince(0))

\* ------------------------------------------------------------------ claims on the ledger and the scanner

HasSuccess(ldg, k) ==
    \E e \in ldg : e.s3_object_key = k /\ e.error_text = NULL

\* C6: whenever the ledger entry of a key has a null error_text, every key
\* triple of the records parsed from that file (the object as it was when
\* the entry was written) is in the store.
C6_SuccessEntryMeansLoaded ==
    \A e \in ledger :
        e.error_text = NULL =>
            LET recs == parse_parquet(
                            Content(e.s3_object_key, e.last_modified),
                            e.s3_object_key).records
            IN  \A i \in 1..Len(recs) :
                    Triple(recs[i]) \in StoredTriples(store)

\* The overwritten file A was loaded after its first version: its success
\* entry counts the one row that was new.
C6_Witness ==
    \E e \in ledger :
        /\ e.s3_object_key = "A"
        /\ e.error_text = NULL
        /\ e.last_modified = 2
        /\ e.rows_ingested = 1

\* C9: the work set of an incremental run is the listed candidates whose
\* key has no ledger entry with a null error_text, in listing order.
C9_WorkSet ==
    (pc = "running" /\ idx = 0) =>
        LET pending(obj) == ~HasSuccess(ledger, obj.key)
        IN  new_objects = SelectSeq(objects, pending)

\* Ledger {A: success, B: failure}, candidates A, B, C: the work set is
\* B, C.
C9_Witness ==
    /\ pc = "running"
    /\ idx = 0
    /\ HasSuccess(ledger, "A")
    /\ \E e \in ledger : e.s3_object_key = "B" /\ e.error_text # NULL
    /\ EntriesOf(ledger, "C") = {}
    /\ [i \in 1..Len(objects) |-> objects[i].key] = <<"A", "B", "C">>
    /\ [i \in 1..Len(new_objects) |-> new_objects[i].key] = <<"B", "C">>

\* C10: no step of an incremental run processes a key whose ledger entry
\* is a success entry.
C10_NoReprocessAfterSuccess ==
    [][(pc = "running" /\ idx' = idx + 1)
          => ~HasSuccess(ledger, new_objects[idx + 1].key)]_vars

\* A was ingested when its last_modified was 1; a run that lists it with
\* last_modified 2 has left it out and has processed the other files.
C10_Witness ==
    /\ pc = "running"
    /\ \E e \in ledger :
          e.s3_object_key = "A" /\ e.error_text = NULL /\ e.last_modified = 1
    /\ \E i \in 1..Len(objects) :
          objects[i].key = "A" /\ objects[i].last_modified = 2
    /\ \A i \in 1..Len(new_objects) : new_objects[i].key # "A"
    /\ idx > 0
    /\ idx = Len(new_objects)

\* ------------------------------------------------------------------ claims on the per-file state machine

KeysOf(objs) == [i \in 1..Len(objs) |-> objs[i].key]

\* C11: in an incremental run whose listing and processed-keys read
\* succeeded, the loop handles the files of the work set one by one in
\* order, each once, whatever the earlier files did: after idx turns the
\* keys handled are the first idx keys of the work set and succeeded +
\* failed = idx, so that at the end of the loop every file has been
\* attempted once and the counts add up to the size of the work set; no
\* file's outcome makes the process leave the loop through main's
\* exception handler.
C11_FailureIsolation ==
    /\ pc = "running" =>
          /\ idx <= Len(new_objects)
          /\ attempted = SubSeq(KeysOf(new_objects), 1, idx)
          /\ success_count + fail_count = idx
    /\ pc = "fatal" => attempted = <<>>

\* Three candidates, only the download of the second raises: counts (2, 1),
\* the second key in the ledger with an error and rows_ingested 0.
C11_Witness ==
    /\ pc = "running"
    /\ idx = Len(new_objects)
    /\ attempted = <<"A", "B", "C">>
    /\ success_count = 2
    /\ fail_count = 1
    /\ HasSuccess(ledger, "A")
    /\ HasSuccess(ledger, "C")
    /\ \E e \in ledger :
          /\ e.s3_object_key = "B"
          /\ e.error_text = "Download error: e"
          /\ e.rows_ingested = 0

\* A process_s3_object call returns in this step.
Attempt == outcome' # outcome /\ outcome'.stage # "none"

\* The first ledger write the call of the outcome o issued.
FirstWrite(o) == o.writes[1]

\* The handler's ledger write (rows_ingested, error_text) of the call of
\* outcome o: it is the first write the call issued and, unless the write
\* itself raised, it is the entry of the key in the ledger ldg.
Wrote(o, ldg, rows_ingested, error_text) ==
    /\ o.writes # <<>>
    /\ FirstWrite(o).rows_ingested = rows_ingested
    /\ FirstWrite(o).error_text = error_text
    /\ ~FirstWrite(o).raised =>
          EntriesOf(ldg, o.key) =
             {Entry(o.key, o.last_modified, rows_ingested, error_text)}

\* C12: when download_object raises for a file, the call goes no further
\* (nothing is parsed or loaded: the store is as before), the handler
\* writes the ledger entry of the key with rows_ingested = 0 and
\* error_text "Download error: ...", and the result is failure.
C12_DownloadFailure ==
    [][(Attempt /\ outcome'.stage = "download") =>
          /\ store' = store
          /\ Wrote(outcome', ledger', 0, "Download error: e")
          /\ ~outcome'.success]_vars

C12_Witness ==
    /\ outcome.stage = "download"
    /\ ~outcome.success
    /\ ~FirstWrite(outcome).raised
    /\ \E e \in ledger :
          /\ e.s3_object_key = outcome.key
          /\ e.error_text = "Download error: e"
          /\ e.rows_ingested = 0

\* The file has a row whose normalization raises.
HasBadRow(content) ==
    \E i \in 1..Len(content) :
       normalize_timestamp(content[i].state_timestamp).raised

\* C13: a file is one parse unit.  When a downloaded file has a row whose
\* normalization raises, the call ends in the parse stage, no row of the
\* file is inserted (the store is as before, rows preceding the bad one
\* included), the handler writes the ledger entry of the key with
\* rows_ingested = 0 and error_text "Parse error: ...", and the result is
\* failure.
C13_ParseUnit ==
    [][(/\ Attempt
        /\ outcome'.stage # "download"
        /\ HasBadRow(Content(outcome'.key, outcome'.last_modified))) =>
          /\ outcome'.stage = "parse"
          /\ store' = store
          /\ Wrote(outcome', ledger', 0, "Parse error: e")
          /\ ~outcome'.success]_vars

\* The file of key C: a good row, then a row that does not normalize.
C13_Witness ==
    /\ outcome.key = "C"
    /\ outcome.stage = "parse"
    /\ ~normalize_timestamp(Content("C", outcome.last_modified)[1].state_timestamp).raised
    /\ HasBadRow(Content("C", outcome.last_modified))
    /\ ~FirstWrite(outcome).raised
    /\ \A r \in store : r.ts # 2 /\ r.s3_object_key # "C"
    /\ \E e \in ledger :
          /\ e.s3_object_key = "C"
          /\ e.error_text = "Parse error: e"
          /\ e.rows_ingested = 0

\* C14: when load_records raises, that attempt leaves the store as it
\* was, the handler writes the ledger entry of the key with
\* rows_ingested = 0 and error_text "Load error: ...", and the result is
\* failure.
C14_LoadFailure ==
    [][(Attempt /\ outcome'.stage = "load") =>
          /\ store' = store
          /\ Wrote(outcome', ledger', 0, "Load error: e")
          /\ ~outcome'.success]_vars

\* The second file of key B: its first row would insert, its second row
\* lacks twap_id.
C14_Witness ==
    /\ outcome.key = "B"
    /\ outcome.last_modified = 2
    /\ outcome.stage = "load"
    /\ ~FirstWrite(outcome).raised
    /\ \A r \in store : r.s3_object_key # "B"
    /\ \E e \in ledger :
          /\ e.s3_object_key = "B"
          /\ e.error_text = "Load error: e"
          /\ e.rows_ingested = 0

\* The records of the file the call of outcome o worked on.
RecordsOf(o) ==
    parse_parquet(Content(o.key, o.last_modified), o.key).records

\* C15: when download, parse and load succeed, the handler writes the
\* ledger entry of the key with error_text null and rows_ingested = what
\* load_records returned, the number of rows the load added (0 on a
\* replay), and the result is success; a file that parses to zero records
\* is marked with rows_ingested = 0 and error_text null, nothing is
\* loaded, and the result is success.
C15_SuccessOutcome ==
    [][/\ (Attempt /\ outcome'.stage = "loaded") =>
             /\ outcome'.rows = Cardinality(store' \ store)
             /\ Wrote(outcome', ledger', outcome'.rows, NULL)
             /\ outcome'.success
       /\ (Attempt /\ outcome'.stage = "empty") =>
             /\ RecordsOf(outcome') = <<>>
             /\ store' = store
             /\ Wrote(outcome', ledger', 0, NULL)
             /\ outcome'.success]_vars

\* An empty file whose ledger write raised: the catch-all has written
\* "Unexpected error: ..." and the result is failure.
C15_Witness ==
    /\ outcome.stage = "empty"
    /\ FirstWrite(outcome).raised
    /\ ~outcome.success
    /\ \E e \in ledger :
          /\ e.s3_object_key = outcome.key
          /\ e.error_text = "Unexpected error: e"

\* C16: when load_records succeeded and the ledger write that follows
\* raises, the result is success, the rows of the file are in the store,
\* and the ledger is as it was before the attempt.
C16_MarkFailsAfterLoad ==
    [][(Attempt /\ outcome'.stage = "loaded" /\ FirstWrite(outcome').raised) =>
          /\ outcome'.success
          /\ store \subseteq store'
          /\ outcome'.rows = Cardinality(store' \ store)
          /\ \A i \in 1..Len(RecordsOf(outcome')) :
                Triple(RecordsOf(outcome')[i]) \in StoredTriples(store')
          /\ ledger' = ledger]_vars

\* File A was loaded, its ledger write raised, and the key has no entry.
C16_Witness ==
    /\ outcome.key = "A"
    /\ outcome.stage = "loaded"
    /\ outcome.rows = 2
    /\ FirstWrite(outcome).raised
    /\ outcome.success
    /\ CountKey(store, "A") = 2
    /\ EntriesOf(ledger, "A") = {}

\* The error text that names the stage a call failed in.
StageText(stage) ==
    CASE stage = "download" -> "Download error: e"
      [] stage = "parse" -> "Parse error: e"
      [] stage = "load" -> "Load error: e"
      [] OTHER -> NULL

\* C17: after every process_s3_object call whose result is failure, the
\* ledger entry of the key has a non-null error_text that names the stage
\* that failed (download, parse or load), also when the first ledger
\* write of the failure handler raised.
C17_FailureNamesStage ==
    (outcome.stage # "none" /\ ~outcome.success) =>
       /\ StageText(outcome.stage) # NULL
       /\ \E e \in ledger :
             /\ e.s3_object_key = outcome.key
             /\ e.error_text = StageText(outcome.stage)

\* A download failed, the handler's ledger write raised, and the entry of
\* the key carries the catch-all's text.
C17_Witness ==
    /\ outcome.stage = "download"
    /\ ~outcome.success
    /\ FirstWrite(outcome).raised
    /\ EntriesOf(ledger, outcome.key) =
          {Entry(outcome.key, outcome.last_modified, 0, "Unexpected error: e")}

\* C20: when list_objects or get_processed_objects raises, the incremental
\* run processes no file, the store and the ledger are as before, and the
\* process exits with a nonzero status.
C20_StartFailure ==
    [][(pc = "idle" /\ pc' = "fatal") =>
          /\ store' = store
          /\ ledger' = ledger
          /\ outcome' = NoOutcome
          /\ attempted' = <<>>
          /\ exit_code' # 0]_vars

\* The start of a run failed on a store and a ledger that hold rows.
C20_Witness ==
    /\ pc = "fatal"
    /\ exit_code = 1
    /\ attempted = <<>>
    /\ store # {}
    /\ \E e \in ledger : e.error_text # NULL

\* C18: after a process died between the load of a file and its ledger
\* write, a later incremental run that lists the key has it in its work
\* set, and its re-attempt of the same file, when download, parse and
\* load succeed, inserts no row: load_records returns 0 and the store,
\* which already holds what the uninterrupted run would have left, is
\* unchanged; the ledger write then records the key as successful.
C18_CrashRecovery ==
    /\ [](pc = "running" =>
            \A i \in 1..Len(objects) :
               objects[i].key = crashed.key =>
                  \E j \in 1..Len(new_objects) :
                     new_objects[j].key = crashed.key)
    /\ [][(/\ Attempt
            /\ outcome'.key = crashed.key
            /\ outcome'.last_modified = crashed.last_modified
            /\ outcome'.stage = "loaded") =>
              /\ outcome'.rows = 0
              /\ store' = store
              /\ outcome'.success
              /\ ~FirstWrite(outcome').raised =>
                    EntriesOf(ledger', crashed.key) =
                       {Entry(crashed.key, crashed.last_modified, 0, NULL)}]_vars

\* The file of key A was loaded by a process that died, and a later run
\* has re-attempted it: no row added, a success entry with 0 rows.
C18_Witness ==
    /\ pc = "running"
    /\ crashed.key = "A"
    /\ outcome.key = "A"
    /\ outcome.last_modified = crashed.last_modified
    /\ outcome.stage = "loaded"
    /\ outcome.rows = 0
    /\ CountKey(store, "A") = 2
    /\ EntriesOf(ledger, "A") = {Entry("A", crashed.last_modified, 0, NULL)}

HasError(ldg, k) ==
    \E e \in ldg : e.s3_object_key = k /\ e.error_text # NULL

\* The object under key k parses, and its records load when the database
\* does not fail.
Loadable(k) ==
    LET p == parse_parquet(Content(k, bucket[k]), k)
    IN  /\ ~p.raised
        /\ ~load_records({}, p.records, k, batch_size, 0).raised

\* C19: a file whose ledger entry carries an error is in the work set of
\* every incremental run that lists it; once its download, parse, load
\* and ledger write succeed for good and incremental runs keep happening,
\* its ledger entry comes to have a null error_text, and from then on the
\* entry stays a success entry and no run attempts the file.
C19_RetryLiveness ==
    /\ [](pc = "running" =>
            \A i \in 1..Len(objects) :
               HasError(ledger, objects[i].key) =>
                  \E j \in 1..Len(new_objects) :
                     new_objects[j].key = objects[i].key)
    /\ \A k \in Keys :
          (repaired /\ HasError(ledger, k) /\ Loadable(k))
             ~> HasSuccess(ledger, k)
    /\ [][\A k \in Keys :
             (repaired /\ HasSuccess(ledger, k)) =>
                /\ HasSuccess(ledger', k)
                /\ Attempt => outcome'.key # k]_vars

\* After the repair a run has the file of key A, whose entry carries an
\* error, next in its work set.
C19_Witness ==
    /\ repaired
    /\ pc = "running"
    /\ HasError(ledger, "A")
    /\ Loadable("A")
    /\ idx < Len(new_objects)
    /\ new_objects[idx + 1].key = "A"

\* ------------------------------------------------------------------ claims on the runs

\* run_incremental has returned to main in the current process.
RunReturned == pc = "exited" /\ log # <<>> /\ log[1] = LogStarting

\* C21: every incremental run that no listing or ledger-read error aborts
\* ends by emitting the aggregate (succeeded, failed) count, also when the
\* listing has no candidate and when the work set is empty.
C21_AggregateCount ==
    RunReturned => log[Len(log)].line = "ETL process completed"

\* A run whose listing had no candidate has returned: its last line is "No
\* new objects to process", and no count was emitted.
C21_Witness ==
    /\ RunReturned
    /\ log[Len(log)] = LogNoNewObjects
    /\ \A i \in 1..Len(log) : log[i].line # "ETL process completed"

\* The ledger writes of the call of outcome o that did not raise.
Landed(o) ==
    LET ok(w) == ~w.raised
    IN  SelectSeq(o.writes, ok)

\* C22: the single-key entry point runs process_s3_object on the named key
\* whatever entry the ledger has for it, does not read the processed-keys
\* set, and the key's ledger entry becomes the one this attempt wrote: the
\* last write of the call that did not raise, with a null error_text
\* exactly when the write reports a success.
C22_SingleKey ==
    [][(log' = <<LogSingle>> /\ pc' = "exited") =>
          /\ Attempt
          /\ outcome'.key \in Keys
          /\ outcome'.last_modified = bucket[outcome'.key]
          /\ processed' = processed
          /\ new_objects' = new_objects
          /\ LET landed == Landed(outcome')
                 w == landed[Len(landed)]
             IN  IF landed = <<>>
                 THEN ledger' = ledger
                 ELSE /\ EntriesOf(ledger', outcome'.key) =
                            {Entry(outcome'.key, outcome'.last_modified,
                                   w.rows_ingested, w.error_text)}
                      /\ \A k \in Keys \ {outcome'.key} :
                            EntriesOf(ledger', k) = EntriesOf(ledger, k)
                      /\ w.error_text = NULL => outcome'.success
                      /\ ~outcome'.success => w.error_text # NULL]_vars

\* A single-key attempt on a key whose ledger entry was a success entry
\* has failed, and the entry now carries its error.
C22_Witness ==
    /\ log = <<LogSingle>>
    /\ pc = "exited"
    /\ outcome.replaced # {}
    /\ ~outcome.success
    /\ EntriesOf(ledger, outcome.key) =
          {Entry(outcome.key, outcome.last_modified, 0, "Download error: e")}


\* ------------------------------------------------------------------ two concurrent loaders

\* Two TWAPLoader instances, each with its own engine and sessions, load
\* into the same database: loader 1 the records of file "A", loader 2 the
\* records of file "B".  The database is PostgreSQL at its default
\* isolation level: the rows a transaction inserted are in the unique
\* index before it commits, and an insert that meets such a row of another
\* transaction waits until that transaction ends.
Loaders == {1, 2}

SourceOf(l) == IF l = 1 THEN "A" ELSE "B"

Other(l) == 3 - l

\* session = self.Session() of load_records; a call with no record
\* returns 0 before it opens a session.
NewSession(recs) ==
    [records |-> recs, pos |-> 0, pending |-> {}, rowcount |-> 0,
     rows_inserted |-> 0,
     state |-> IF recs = <<>> THEN "returned" ELSE "open"]

NeverBlocked(theirs, row) == FALSE

\* The arbiter index holds a row with the same key triple that a
\* transaction still in progress inserted: the insert waits for it.
Blocked(theirs, row) == theirs.state = "open" /\ Conflict(theirs.pending, row)

\* The statement raised: except-branch of load_records (session.rollback(),
\* raise).
Raised(s) ==
    [s EXCEPT !.pending = Rollback({}, s.pending), !.rowcount = 0,
              !.rows_inserted = 0, !.state = "raised"]

\* The row at position p closes its statement: rows_inserted +=
\* result.rowcount.
EndOfBatch(s, p, bs) == p = Len(s.records) \/ p % bs = 0

\* One row of the multi-row INSERT in progress has been dealt with.
Advance(s, inserted, bs) ==
    LET p == s.pos + 1
        row == s.records[p]
        count == s.rowcount + (IF inserted THEN 1 ELSE 0)
    IN  [s EXCEPT !.pos = p,
                  !.pending = IF inserted THEN s.pending \cup {row}
                              ELSE s.pending,
                  !.rowcount = IF EndOfBatch(s, p, bs) THEN 0 ELSE count,
                  !.rows_inserted = IF EndOfBatch(s, p, bs)
                                    THEN s.rows_inserted + count
                                    ELSE s.rows_inserted]

\* Rows an earlier load committed.
EarlierLoad ==
    /\ pc = "idle"
    /\ store = {}
    /\ \E row \in InputRows :
          store' = load_records(store, <<WithKey(row, "C")>>, "C",
                                batch_size, 0).table
    /\ UNCHANGED <<ledger, batch_size, loaderVars, processed, pc, runVars,
                 otherVars>>

\* Both loaders are handed their record lists and call load_records.
Connect ==
    /\ pc = "idle"
    /\ pc' = "concurrent"
    /\ \E r1 \in RecordLists(SourceOf(1)) : \E r2 \in RecordLists(SourceOf(2)) :
          sessions' = [l \in Loaders |->
                          NewSession(IF l = 1 THEN r1 ELSE r2)]
    /\ UNCHANGED <<store, ledger, batch_size, loaderVars, processed, runVars,
                 reply, norm>>

\* session.execute(stmt), one row of the statement at a time: a NOT NULL
\* violation raises, a row in conflict with a committed row or with a row of
\* this transaction is skipped, a row in conflict with a row of the other
\* transaction waits, any other row is inserted.
InsertRow(l) ==
    /\ pc = "concurrent"
    /\ sessions[l].state = "open"
    /\ sessions[l].pos < Len(sessions[l].records)
    /\ LET s == sessions[l]
           row == s.records[s.pos + 1]
       IN  IF NotNullViolated(row)
           THEN sessions' = [sessions EXCEPT ![l] = Raised(s)]
           ELSE /\ ~Blocked(sessions[Other(l)], row)
                /\ sessions' =
                      [sessions EXCEPT ![l] =
                          Advance(s, ~Conflict(store \cup s.pending, row),
                                  batch_size)]
    /\ UNCHANGED <<store, ledger, batch_size, loaderVars, processed, pc,
                 runVars, reply, norm>>

Waiting(l) ==
    /\ sessions[l].state = "open"
    /\ sessions[l].pos < Len(sessions[l].records)
    /\ ~NotNullViolated(sessions[l].records[sessions[l].pos + 1])
    /\ Blocked(sessions[Other(l)], sessions[l].records[sessions[l].pos + 1])

\* Each transaction waits for the other: the database's deadlock detector
\* makes the statement of one of them raise.
Deadlock(l) ==
    /\ pc = "concurrent"
    /\ Waiting(l)
    /\ Waiting(Other(l))
    /\ sessions' = [sessions EXCEPT ![l] = Raised(sessions[l])]
    /\ UNCHANGED <<store, ledger, batch_size, loaderVars, processed, pc,
                 runVars, reply, norm>>

\* session.commit(); return rows_inserted.
Commit(l) ==
    /\ pc = "concurrent"
    /\ sessions[l].state = "open"
    /\ sessions[l].pos = Len(sessions[l].records)
    /\ store' = store \cup sessions[l].pending
    /\ sessions' = [sessions EXCEPT ![l].pending = {}, ![l].state = "returned"]
    /\ UNCHANGED <<ledger, batch_size, loaderVars, processed, pc, runVars,
                 reply, norm>>

NextConc ==
    \/ EarlierLoad
    \/ Connect
    \/ \E l \in Loaders : InsertRow(l)
    \/ \E l \in Loaders : Deadlock(l)
    \/ \E l \in Loaders : Commit(l)

SpecConc == InitLoad /\ [][NextConc]_vars

\* The key triples both record lists hold.
Overlap ==
    { Triple(sessions[1].records[i]) : i \in 1..Len(sessions[1].records) }
        \cap
    { Triple(sessions[2].records[i]) : i \in 1..Len(sessions[2].records) }

Stored(t) == { x \in store : Triple(x) = t }

BothEnded ==
    /\ pc = "concurrent"
    /\ \A l \in Loaders : sessions[l].state \in {"returned", "raised"}

\* C23: whatever the interleaving of the rows, statements and commits of
\* two concurrent load_records calls, the store never holds two rows with
\* the same key triple, and once both calls have ended, one of them at
\* least by returning, every key triple that both record lists hold is
\* stored exactly once.
C23_ConcurrentLoaders ==
    /\ \A x \in store : \A y \in store : Triple(x) = Triple(y) => x = y
    /\ (BothEnded /\ \E l \in Loaders : sessions[l].state = "returned")
          => \A t \in Overlap : Cardinality(Stored(t)) = 1

\* The two loaders deadlocked on two overlapping triples: one call raised,
\* the other returned, and both triples are stored once.
C23_Witness ==
    /\ BothEnded
    /\ \E l \in Loaders :
          /\ sessions[l].state = "raised"
          /\ sessions[Other(l)].state = "returned"
          /\ sessions[Other(l)].rows_inserted = 2
          /\ \A i \in 1..Len(sessions[l].records) :
                ~NotNullViolated(sessions[l].records[i])
    /\ Cardinality(Overlap) = 2
    /\ \A t \in Overlap : Cardinality(Stored(t)) = 1


\* ------------------------------------------------------------------ the normalizer alone

\* Clock readings and offsets from UTC, in hours.
Walls == {1, 2, 3}

Offsets == {0 - 1, 0, 1}

\* A Unix number, a string without timezone, and a string or datetime
\* with an explicit offset.
UnixInputs == { TsValue("unix", v, FALSE, 0) : v \in Walls }

NaiveInputs == { TsValue("str", v, FALSE, 0) : v \in Walls }

OffsetInputs ==
    { TsValue(kind, v, TRUE, tz) : kind \in {"str", "datetime"},
                             v \in Walls, tz \in Offsets }

\* The instant a timestamp value denotes, in hours since the epoch, a
\* value without timezone being read as UTC.
Instant(t) == IF t.aware THEN t.v - t.tz ELSE t.v

\* The inputs of the normalizer: three timestamp values, and a row whose
\* timestamp is one of them or of a type that is not supported, to be
\* parsed under key k.
NormInputs ==
    { [given |-> <<u, n, o>>,
       row |-> [twap_id |-> id, state_user |-> "w1",
                state_timestamp |-> IF pick = 0
                                    THEN TsValue("unsupported", 0, FALSE, 0)
                                    ELSE <<u, n, o>>[pick],
                state_coin |-> "BTC"],
       key |-> k, values |-> <<>>, out |-> <<>>, seen |-> <<>>] :
         u \in UnixInputs, n \in NaiveInputs, o \in OffsetInputs,
         k \in LoadKeys, id \in {"t1", NULL}, pick \in 0..3 }

InitNorm == InitCommon /\ norm \in NormInputs

\* _normalize_timestamp applied to each of the three values.
NormalizeTimestamps ==
    /\ norm.values = <<>>
    /\ norm' = [norm EXCEPT !.values =
                   [i \in 1..3 |-> normalize_timestamp(norm.given[i])]]
    /\ UNCHANGED <<store, ledger, batch_size, loaderVars, processed, pc,
                 runVars, sessions, reply>>

\* One run of the normalizer over the row, as parse_parquet makes it: the
\* record, or the exception of _normalize_timestamp.
NormalizeRun(row, k) ==
    IF normalize_timestamp(row.state_timestamp).raised
    THEN [raised |-> TRUE, record |-> NULL]
    ELSE [raised |-> FALSE, record |-> row_to_record(row, k)]

\* A run of the normalizer over the row and the key; seen remembers how
\* many rows the store held then.
NormalizeRow ==
    /\ Len(norm.out) < MaxCalls
    /\ norm' = [norm EXCEPT
                   !.out = Append(norm.out, NormalizeRun(norm.row, norm.key)),
                   !.seen = Append(norm.seen, Cardinality(store))]
    /\ UNCHANGED <<store, ledger, batch_size, loaderVars, processed, pc,
                 runVars, sessions, reply>>

\* Between two runs the record of the first is loaded and its file is
\* marked in the ledger.
LoadBetween ==
    /\ norm.out # <<>>
    /\ ~norm.out[1].raised
    /\ ledger = {}
    /\ LET res == load_records(store, <<norm.out[1].record>>, norm.key,
                               batch_size, 0)
       IN  /\ store' = res.table
           /\ ledger' = Upsert(ledger,
                               Entry(norm.key, 1, res.rows,
                                     IF res.raised THEN "Load error: e"
                                     ELSE NULL))
    /\ UNCHANGED <<batch_size, loaderVars, processed, pc, runVars,
                 otherVars>>

NextNorm == NormalizeTimestamps \/ NormalizeRow \/ LoadBetween

SpecNorm == InitNorm /\ [][NextNorm]_vars

\* C24: a Unix-seconds number, a string without timezone and a string or
\* datetime with an explicit offset that denote the same instant are
\* normalized, without error, to the same UTC value.
C24_SameInstant ==
    norm.values # <<>> =>
        \A i \in 1..3 : \A j \in 1..3 :
            Instant(norm.given[i]) = Instant(norm.given[j])
                => /\ ~norm.values[i].raised
                   /\ ~norm.values[j].raised
                   /\ norm.values[i].value = norm.values[j].value

\* The three values denote one instant, the third on a clock that is not
\* UTC's, and were normalized to one value.
C24_Witness ==
    /\ norm.values # <<>>
    /\ Instant(norm.given[1]) = Instant(norm.given[2])
    /\ Instant(norm.given[2]) = Instant(norm.given[3])
    /\ norm.given[3].tz # 0
    /\ norm.given[3].v # norm.given[1].v
    /\ norm.values[1].value = norm.values[3].value
    /\ norm.values[2].value = norm.values[3].value

MaxLimit == 3
MaxOffset == 2

\* The order of twap_id values under ORDER BY.
IdOrder == <<"t1", "t2", "t3">>

IdRank(id) == CHOOSE i \in 1..Len(IdOrder) : IdOrder[i] = id

\* The rows the loader is given before the reads: three status updates of
\* t1 and one each of t2 and t3 for wallet w1, and an update of t1 for
\* wallet w2 with the timestamp of one of w1's.
ApiRows ==
    { WithKey([twap_id |-> "t1", wallet |-> "w1", ts |-> 1, asset |-> "BTC"], "A"),
      WithKey([twap_id |-> "t1", wallet |-> "w1", ts |-> 2, asset |-> "BTC"], "A"),
      WithKey([twap_id |-> "t1", wallet |-> "w1", ts |-> 3, asset |-> "ETH"], "A"),
      WithKey([twap_id |-> "t2", wallet |-> "w1", ts |-> 2, asset |-> "BTC"], "A"),
      WithKey([twap_id |-> "t3", wallet |-> "w1", ts |-> 2, asset |-> "ETH"], "A"),
      WithKey([twap_id |-> "t1", wallet |-> "w2", ts |-> 3, asset |-> "BTC"], "A") }

\* The requests of GET /api/v1/twaps; asset NULL: the parameter is absent.
ListRequests ==
    [wallet : {"w1", "w2"}, start : 1..3, end : 1..3,
     asset : {NULL, "BTC", "ETH"}, latest_per_twap : BOOLEAN,
     limit : 1..MaxLimit, offset : 0..MaxOffset]

\* row.raw_payload
Payload(row) == <<row.twap_id, row.wallet, row.ts, row.asset>>

WhereAnyAsset(tbl, req) ==
    { x \in tbl : x.wallet = req.wallet /\ x.ts >= req.start
                                          /\ x.ts <= req.end }

\* select(TWAPStatus).where(wallet, ts >= start, ts <= end) and, when an
\* asset is given, .where(asset)
Where(tbl, req) ==
    { x \in tbl : /\ x.wallet = req.wallet
                  /\ x.ts >= req.start
                  /\ x.ts <= req.end
                  /\ req.asset # NULL => x.asset = req.asset }

\* order_by(TWAPStatus.twap_id, TWAPStatus.ts.desc())
Before(x, y) ==
    \/ IdRank(x.twap_id) < IdRank(y.twap_id)
    \/ x.twap_id = y.twap_id /\ x.ts > y.ts

RECURSIVE OrderBy(_)
\* result.scalars().all(): the selected rows in order.
OrderBy(S) ==
    IF S = {}
    THEN <<>>
    ELSE LET first == CHOOSE x \in S : \A y \in S \ {x} : Before(x, y)
         IN  <<first>> \o OrderBy(S \ {first})

RECURSIVE GroupKeys(_, _)
\* list(twap_groups.keys()): the twap ids in the order the rows first show
\* them.
GroupKeys(rows, seen) ==
    IF rows = <<>>
    THEN <<>>
    ELSE IF Head(rows).twap_id \in seen
    THEN GroupKeys(Tail(rows), seen)
    ELSE <<Head(rows).twap_id>>
             \o GroupKeys(Tail(rows), seen \cup {Head(rows).twap_id})

SliceFromStart(seq, offset, limit) ==
    SubSeq(seq, 1, IF limit < Len(seq) THEN limit ELSE Len(seq))

\* twap_ids[offset:offset + limit]
Slice(seq, offset, limit) ==
    SubSeq(seq, offset + 1,
           IF offset + limit < Len(seq) THEN offset + limit ELSE Len(seq))

\* TWAPData of one group: the fields of twap_rows[0], and in raw its
\* payload or, without latest_per_twap, the payloads of all the group's rows.
TWAPData(twap_rows, latest_per_twap) ==
    [twap_id |-> twap_rows[1].twap_id, asset |-> twap_rows[1].asset,
     latest_ts |-> twap_rows[1].ts,
     raw |-> IF latest_per_twap
             THEN <<Payload(twap_rows[1])>>
             ELSE [i \in 1..Len(twap_rows) |-> Payload(twap_rows[i])]]

\* get_twaps: the twaps of the response.
get_twaps(tbl, req) ==
    LET rows == OrderBy(Where(tbl, req))
        twap_ids == GroupKeys(rows, {})
        paginated_twap_ids == Slice(twap_ids, req.offset, req.limit)
        group(id) == LET same(r) == r.twap_id = id IN SelectSeq(rows, same)
    IN  [i \in 1..Len(paginated_twap_ids) |->
            TWAPData(group(paginated_twap_ids[i]), req.latest_per_twap)]

WhereIdOfFirstWallet(tbl, id) ==
    { x \in tbl : x.twap_id = id /\ x.wallet = "w1" }

\* select(TWAPStatus).where(TWAPStatus.twap_id == twap_id)
WhereId(tbl, id) == { x \in tbl : x.twap_id = id }

\* order_by(TWAPStatus.ts.desc()): any order of the rows in which ts does
\* not increase; the database is free in the order of rows with equal ts.
OrderByTsDesc(S) ==
    { rows \in [1..Cardinality(S) -> S] :
         /\ \A i \in 1..Cardinality(S) : \A j \in 1..Cardinality(S) :
               rows[i] = rows[j] => i = j
         /\ \A i \in 1..(Cardinality(S) - 1) : rows[i].ts >= rows[i + 1].ts }

\* TWAPRow
TWAPRow(row) ==
    [wallet |-> row.wallet, ts |-> row.ts, asset |-> row.asset,
     raw |-> Payload(row)]

\* get_twap_by_id, given the rows as the database returned them.
get_twap_by_id(rows, id) ==
    IF rows = <<>>
    THEN [status |-> 404, rows |-> <<>>]
    ELSE [status |-> 200, rows |-> [i \in 1..Len(rows) |-> TWAPRow(rows[i])]]

\* The loader commits one more row; what a client read before is stale.
ApiLoad ==
    /\ \E row \in ApiRows \ store :
          store' = load_records(store, <<row>>, "A", batch_size, 0).table
    /\ reply' = [kind |-> "none"]
    /\ UNCHANGED <<ledger, batch_size, loaderVars, processed, pc, runVars,
                 sessions, norm>>

\* GET /api/v1/twaps
GetTwaps ==
    /\ reply.kind = "none"
    /\ \E req \in ListRequests :
          reply' = [kind |-> "list", request |-> req,
                    pages |-> <<get_twaps(store, req)>>]
    /\ UNCHANGED <<store, ledger, batch_size, loaderVars, processed, pc,
                 runVars, sessions, norm>>

\* The client asks for the page after the last one it got, with the same
\* limit, until a page comes back empty.
GetNextPage ==
    /\ reply.kind = "list"
    /\ reply.pages[Len(reply.pages)] # <<>>
    /\ reply' = [reply EXCEPT !.pages =
                    Append(reply.pages,
                           get_twaps(store,
                                     [reply.request EXCEPT !.offset =
                                         reply.request.offset
                                           + Len(reply.pages)
                                               * reply.request.limit]))]
    /\ UNCHANGED <<store, ledger, batch_size, loaderVars, processed, pc,
                 runVars, sessions, norm>>

\* GET /api/v1/twaps/{twap_id}
GetTwapById ==
    /\ reply.kind = "none"
    /\ \E id \in {"t1", "t2", "t3", "t9"} :
          \E rows \in OrderByTsDesc(WhereId(store, id)) :
              LET res == get_twap_by_id(rows, id)
              IN  reply' = [kind |-> "detail", request |-> [twap_id |-> id],
                            status |-> res.status, rows |-> res.rows]
    /\ UNCHANGED <<store, ledger, batch_size, loaderVars, processed, pc,
                 runVars, sessions, norm>>

\* The client is done with the response.
Forget ==
    /\ reply.kind # "none"
    /\ reply' = [kind |-> "none"]
    /\ UNCHANGED <<store, ledger, batch_size, loaderVars, processed, pc,
                 runVars, sessions, norm>>

NextApi == ApiLoad \/ GetTwaps \/ GetNextPage \/ GetTwapById \/ Forget

SpecApi == InitLoad /\ [][NextApi]_vars

\* The stored rows a list request matches, the twap ids among them, and
\* the latest matching row of an id.
Matching(req) ==
    { x \in store : /\ x.wallet = req.wallet
                    /\ req.start <= x.ts
                    /\ x.ts <= req.end
                    /\ (req.asset = NULL \/ x.asset = req.asset) }

MatchingIds(req) == { x.twap_id : x \in Matching(req) }

LatestOf(req, id) ==
    CHOOSE x \in Matching(req) :
        /\ x.twap_id = id
        /\ \A y \in Matching(req) : y.twap_id = id => y.ts <= x.ts

\* The place of an id among the matching ids in twap_id order, from 1.
PlaceOf(req, id) ==
    Cardinality({ other \in MatchingIds(req) : IdRank(other) <= IdRank(id) })

\* C26: the list read returns one group per distinct twap_id among the
\* stored rows that match the wallet, the inclusive [start, end] window
\* and the asset when one is given (the ids on the requested page, which
\* are all of them from offset 0 with a limit not below their number), no
\* id twice, and each group shows the fields of the matching row of its id
\* with the greatest ts.
C26_ListGroups ==
    reply.kind = "list" =>
        LET req == reply.request
            twaps == reply.pages[1]
        IN  /\ \A i \in 1..Len(twaps) : \A j \in 1..Len(twaps) :
                  twaps[i].twap_id = twaps[j].twap_id => i = j
            /\ \A i \in 1..Len(twaps) :
                  /\ twaps[i].twap_id \in MatchingIds(req)
                  /\ twaps[i].asset = LatestOf(req, twaps[i].twap_id).asset
                  /\ twaps[i].latest_ts = LatestOf(req, twaps[i].twap_id).ts
                  /\ twaps[i].raw[1] = Payload(LatestOf(req, twaps[i].twap_id))
            /\ \A id \in MatchingIds(req) :
                  (req.offset < PlaceOf(req, id)
                     /\ PlaceOf(req, id) <= req.offset + req.limit)
                      => \E i \in 1..Len(twaps) : twaps[i].twap_id = id
            /\ (req.offset = 0 /\ req.limit >= Cardinality(MatchingIds(req)))
                  => Len(twaps) = Cardinality(MatchingIds(req))

\* Five rows over three ids of wallet w1 are stored and the list read of
\* w1 over the whole window gave three groups, that of t1 showing its
\* third update.
C26_Witness ==
    /\ reply.kind = "list"
    /\ Cardinality({ x \in store : x.wallet = "w1" }) = 5
    /\ reply.request.wallet = "w1"
    /\ reply.request.start = 1
    /\ reply.request.end = 3
    /\ reply.request.asset = NULL
    /\ reply.request.offset = 0
    /\ Len(reply.pages[1]) = 3
    /\ reply.pages[1][1].twap_id = "t1"
    /\ reply.pages[1][1].latest_ts = 3
    /\ reply.pages[1][1].asset = "ETH"

\* C27: the detail read of a twap id answers 404 exactly when no stored
\* row has that id, and otherwise returns every stored row with that id,
\* whatever its wallet, each once, in an order of non-increasing ts.
C27_DetailRead ==
    reply.kind = "detail" =>
        LET stored == { x \in store : x.twap_id = reply.request.twap_id }
        IN  /\ reply.status = 404 <=> stored = {}
            /\ reply.status # 404 =>
                  /\ reply.status = 200
                  /\ Len(reply.rows) = Cardinality(stored)
                  /\ \A x \in stored :
                        \E i \in 1..Len(reply.rows) :
                            /\ reply.rows[i].wallet = x.wallet
                            /\ reply.rows[i].ts = x.ts
                            /\ reply.rows[i].asset = x.asset
                  /\ \A i \in 1..(Len(reply.rows) - 1) :
                        reply.rows[i].ts >= reply.rows[i + 1].ts

\* The detail read of t1 returned its four rows, those of both wallets.
C27_Witness ==
    /\ reply.kind = "detail"
    /\ reply.status = 200
    /\ reply.request.twap_id = "t1"
    /\ Len(reply.rows) = 4
    /\ \E i \in 1..4 : reply.rows[i].wallet = "w2"
    /\ \E i \in 1..4 : reply.rows[i].wallet = "w1"

\* The twap ids of all the pages read so far, in the order read.
RECURSIVE PagedIds(_, _)
PagedIds(pages, n) ==
    IF n = 0
    THEN <<>>
    ELSE PagedIds(pages, n - 1)
            \o [i \in 1..Len(pages[n]) |-> pages[n][i].twap_id]

\* C28: over an unchanged store, no page of the list read holds more than
\* limit groups, pages at different offsets hold different twap ids, and
\* the consecutive pages from offset 0 up to the empty one hold, put end
\* to end, every matching twap id once, in twap_id order: limit and
\* offset count groups, not rows.
C28_Pagination ==
    reply.kind = "list" =>
        LET req == reply.request
            pages == reply.pages
            ids == PagedIds(pages, Len(pages))
        IN  /\ \A p \in 1..Len(pages) : Len(pages[p]) <= req.limit
            /\ \A i \in 1..Len(ids) : \A j \in 1..Len(ids) :
                  ids[i] = ids[j] => i = j
            /\ \A i \in 1..(Len(ids) - 1) : IdRank(ids[i]) < IdRank(ids[i + 1])
            /\ (req.offset = 0 /\ pages[Len(pages)] = <<>>)
                  => { ids[i] : i \in 1..Len(ids) } = MatchingIds(req)

\* Three pages of one group each and the empty fourth were read over a
\* store in which the first id has three matching rows.
C28_Witness ==
    /\ reply.kind = "list"
    /\ reply.request.limit = 1
    /\ reply.request.offset = 0
    /\ Len(reply.pages) = 4
    /\ reply.pages[4] = <<>>
    /\ Cardinality({ x \in Matching(reply.request) : x.twap_id = "t1" }) = 3
    /\ PagedIds(reply.pages, 4) = <<"t1", "t2", "t3">>


\* The keys of a list of objects, in order.
KeysIn(objs) == [i \in 1..Len(objs) |-> objs[i].key]

\* C29: an incremental run handles its files one at a time in listing
\* order: each step of the loop handles exactly one file, the one that
\* follows in the work set the files handled so far, and when it begins
\* the file before it has its final outcome and its ledger entry written.
C29_OneAtATime ==
    [][(pc = "running" /\ attempted' # attempted /\ attempted' # <<>>) =>
          /\ Attempt
          /\ attempted' = Append(attempted, outcome'.key)
          /\ attempted' = SubSeq(KeysIn(new_objects), 1, Len(attempted'))
          /\ new_objects = FilterNew(objects, processed)
          /\ attempted # <<>> =>
                /\ outcome.key = attempted[Len(attempted)]
                /\ outcome.stage # "none"
                /\ LET landed == Landed(outcome)
                       w == landed[Len(landed)]
                   IN  landed # <<>> =>
                          Entry(outcome.key, outcome.last_modified,
                                w.rows_ingested, w.error_text) \in ledger]_vars

\* The loop has handled B and then C, in the order S3 listed them, and
\* holds the outcome of C.
C29_Witness ==
    /\ pc = "running"
    /\ KeysIn(objects) = <<"A", "B", "C">>
    /\ attempted = <<"B", "C">>
    /\ idx = 2
    /\ outcome.key = "C"
    /\ EntriesOf(ledger, "B") # {}


\* C30: in every reachable state, every ledger entry with an error_text
\* has rows_ingested = 0, also the entry a failed attempt wrote over a
\* success entry with a positive row count.
C30_FailureHasNoRows ==
    \A e \in ledger : e.error_text # NULL => e.rows_ingested = 0

\* A failed attempt on a key replaced the key's success entry, which had
\* a positive row count, by an entry with an error_text and no row.
C30_Witness ==
    /\ outcome.stage # "none"
    /\ ~outcome.success
    /\ \E old \in outcome.replaced :
          old.error_text = NULL /\ old.rows_ingested > 0
    /\ \E e \in EntriesOf(ledger, outcome.key) :
          e.error_text # NULL /\ e.rows_ingested = 0


\* C31: a file that parses to zero records, like a file whose load
\* succeeded, has result success also when its ledger write raises.
C31_LedgerFailureKeepsSuccess ==
    [][(/\ Attempt
        /\ outcome'.stage \in {"empty", "loaded"}
        /\ FirstWrite(outcome').raised) => outcome'.success]_vars

\* An incremental run counted an empty file as failed because its ledger
\* write raised.
C31_Witness ==
    /\ pc = "running"
    /\ outcome.stage = "empty"
    /\ FirstWrite(outcome).raised
    /\ ~outcome.success
    /\ fail_count >= 1
    /\ outcome.key = attempted[Len(attempted)]


\* ------------------------------------------------------------------ the sessions of the loader

\* One call of a loader method, followed statement by statement.  fn: the
\* method; recs, entry: its arguments; at: where the call is ("execute",
\* "commit", "except", "finally", "returned", "raised"); open: its session
\* is open; opened: the sessions it has opened; before: the table as the
\* call found it; view: the table as the session's transaction sees it;
\* dirty: the transaction holds writes that are neither committed nor
\* rolled back; j: the batch in turn; stmts: the batches of the insert
\* statements issued; exc: an exception is on its way to the caller;
\* rollback: what became of session.rollback() ("none": not called);
\* result: what the call returns.
NewCall(fn, recs, entry, tbl) ==
    [fn |-> fn, recs |-> recs, entry |-> entry, at |-> "execute",
     open |-> TRUE, opened |-> 1, before |-> tbl, view |-> tbl,
     dirty |-> FALSE, j |-> 1, rows_inserted |-> 0, stmts |-> <<>>,
     exc |-> FALSE, rollback |-> "none", result |-> 0]

\* "if not records: return 0" of load_records, before self.Session().
NoSessionCall(tbl) ==
    [NewCall("load_records", <<>>, Entry(NULL, 0, 0, NULL), tbl)
        EXCEPT !.at = "returned", !.open = FALSE, !.opened = 0]

\* The arguments of mark_object_processed in this part.
MarkEntries ==
    { Entry("A", 1, rows, err) : rows \in {0, 1},
                                 err \in {NULL, "Load error: e"} }

session_close_on_return(c) ==
    IF c.exc THEN c ELSE [c EXCEPT !.open = FALSE, !.dirty = FALSE]

\* finally: session.close(): the session is released, and with it any
\* transaction it still holds.
session_close(c) == [c EXCEPT !.open = FALSE, !.dirty = FALSE]

\* load_records(records, object_key) is called.
CallLoad ==
    /\ pc = "idle"
    /\ pc' = "call"
    /\ \E recs \in RecordLists("A") :
          sessions' = IF recs = <<>>
                      THEN NoSessionCall(store)
                      ELSE [NewCall("load_records", recs,
                                    Entry(NULL, 0, 0, NULL), store)
                               EXCEPT !.at =
                                  IF NumBatches(recs, batch_size) >= 1
                                  THEN "execute" ELSE "commit"]
    /\ UNCHANGED <<store, ledger, batch_size, loaderVars, processed, runVars,
                 reply, norm>>

\* mark_object_processed(key, last_modified, rows_ingested, error_text) is
\* called.
CallMark ==
    /\ pc = "idle"
    /\ pc' = "call"
    /\ \E e \in MarkEntries :
          sessions' = NewCall("mark_object_processed", <<>>, e, ledger)
    /\ UNCHANGED <<store, ledger, batch_size, loaderVars, processed, runVars,
                 reply, norm>>

\* get_processed_objects() is called.
CallGet ==
    /\ pc = "idle"
    /\ pc' = "call"
    /\ sessions' = NewCall("get_processed_objects", <<>>,
                           Entry(NULL, 0, 0, NULL), ledger)
    /\ UNCHANGED <<store, ledger, batch_size, loaderVars, processed, runVars,
                 reply, norm>>

\* Where an exception raised inside the try goes: to the except clause of
\* load_records and mark_object_processed, straight to the finally clause
\* of get_processed_objects, which has no except clause.
Raise(c) ==
    [c EXCEPT !.exc = TRUE,
              !.at = IF c.fn = "get_processed_objects" THEN "finally"
                     ELSE "except"]

\* session.execute(stmt) of the statement in turn, when the database does
\* not fail it for a reason of its own.
ExecuteOf(c, bs) ==
    CASE c.fn = "load_records" ->
           LET batch == Batch(c.recs, bs, c.j)
               res == Execute(c.view, batch)
           IN  IF res.error
               THEN Raise([c EXCEPT !.stmts = Append(c.stmts, batch)])
               ELSE [c EXCEPT !.view = res.table,
                              !.dirty = c.dirty \/ res.rowcount > 0,
                              !.rows_inserted = c.rows_inserted + res.rowcount,
                              !.stmts = Append(c.stmts, batch),
                              !.j = c.j + 1,
                              !.at = IF c.j + 1 > NumBatches(c.recs, bs)
                                     THEN "commit" ELSE "execute"]
      [] c.fn = "mark_object_processed" ->
           [c EXCEPT !.view = Upsert(c.view, c.entry), !.dirty = TRUE,
                     !.at = "commit"]
      [] OTHER ->
           [c EXCEPT !.result = get_processed_objects(c.view),
                     !.at = "finally"]

\* session.execute(stmt): the statement runs, or the database fails it.
ExecuteStmt ==
    /\ pc = "call"
    /\ sessions.at = "execute"
    /\ \/ sessions' = ExecuteOf(sessions, batch_size)
       \/ sessions' = Raise(sessions)
    /\ UNCHANGED <<store, ledger, batch_size, loaderVars, processed, pc,
                 runVars, reply, norm>>

\* session.commit(): the writes of the transaction reach the table, or
\* the commit raises.
CommitStep ==
    /\ pc = "call"
    /\ sessions.at = "commit"
    /\ \/ /\ sessions' = [sessions EXCEPT !.dirty = FALSE, !.at = "finally",
                                         !.result = sessions.rows_inserted]
          /\ IF sessions.fn = "load_records"
             THEN store' = sessions.view /\ ledger' = ledger
             ELSE ledger' = sessions.view /\ store' = store
       \/ /\ sessions' = Raise(sessions)
          /\ UNCHANGED <<store, ledger>>
    /\ UNCHANGED <<batch_size, loaderVars, processed, pc, runVars, reply,
                 norm>>

\* except Exception: session.rollback(); raise.  When the rollback
\* raises in its turn, the finally clause is next all the same.
RollbackStep ==
    /\ pc = "call"
    /\ sessions.at = "except"
    /\ \/ sessions' = [sessions EXCEPT
                          !.view = Rollback(sessions.before, sessions.view),
                          !.dirty = FALSE, !.rollback = "done",
                          !.at = "finally"]
       \/ sessions' = [sessions EXCEPT !.rollback = "raised",
                                       !.at = "finally"]
    /\ UNCHANGED <<store, ledger, batch_size, loaderVars, processed, pc,
                 runVars, reply, norm>>

\* finally: session.close(); then the call returns or its exception
\* goes on to the caller.
CloseStep ==
    /\ pc = "call"
    /\ sessions.at = "finally"
    /\ sessions' = [session_close(sessions) EXCEPT
                       !.at = IF sessions.exc THEN "raised" ELSE "returned"]
    /\ UNCHANGED <<store, ledger, batch_size, loaderVars, processed, pc,
                 runVars, reply, norm>>

\* The caller goes on.
CallDone ==
    /\ pc = "call"
    /\ sessions.at \in {"returned", "raised"}
    /\ pc' = "idle"
    /\ sessions' = <<>>
    /\ UNCHANGED <<store, ledger, batch_size, loaderVars, processed, runVars,
                 reply, norm>>

NextSess ==
    \/ CallLoad
    \/ CallMark
    \/ CallGet
    \/ ExecuteStmt
    \/ CommitStep
    \/ RollbackStep
    \/ CloseStep
    \/ CallDone

SpecSess == InitLoad /\ [][NextSess]_vars

\* The table a call works on, as it is stored.
TableOf(c) == IF c.fn = "load_records" THEN store ELSE ledger

\* C32: when a call of load_records, mark_object_processed or
\* get_processed_objects has returned or raised, the session it opened is
\* closed and holds no uncommitted write; when it raised, the table is as
\* the call found it, and after a failed statement or commit of
\* load_records or mark_object_processed session.rollback() has been
\* called before the finally clause (and has undone the transaction
\* unless it raised itself, in which case closing the session does).
C32_SessionsClosed ==
    pc = "call" =>
        /\ sessions.at \in {"returned", "raised"} =>
              /\ ~sessions.open
              /\ ~sessions.dirty
        /\ sessions.at = "raised" => TableOf(sessions) = sessions.before
        /\ (sessions.at = "finally" /\ sessions.exc) =>
              /\ sessions.fn # "get_processed_objects" =>
                    sessions.rollback # "none"
              /\ sessions.rollback = "done" =>
                    ~sessions.dirty /\ sessions.view = sessions.before
        /\ sessions.at \in {"execute", "commit", "except"} =>
              TableOf(sessions) = sessions.before

\* load_records raised at its second statement, after a first statement
\* that had inserted a row: the row is not stored and the session is
\* closed.
C32_Witness ==
    /\ pc = "call"
    /\ sessions.fn = "load_records"
    /\ sessions.at = "raised"
    /\ Len(sessions.stmts) = 2
    /\ sessions.rows_inserted = 1
    /\ sessions.opened = 1
    /\ sessions.rollback = "done"
    /\ ~sessions.open
    /\ store = sessions.before


\* The smallest number of slices of at most b records that hold n records.
CeilDiv(n, b) == CHOOSE q \in 0..n : q * b >= n /\ (q - 1) * b < n

RECURSIVE Concat(_, _)
\* The first m of a list of slices, put end to end.
Concat(slices, m) ==
    IF m = 0 THEN <<>> ELSE Concat(slices, m - 1) \o slices[m]

\* C33: the insert statements load_records issues take consecutive slices
\* of the input in input order, each of at least one and at most
\* batch_size records; a call that returns has issued ceil(n / batch_size)
\* of them, which hold every record exactly once; a call with no record
\* issues no statement, opens no session and returns 0.
C33_Batches ==
    (pc = "call" /\ sessions.fn = "load_records") =>
        LET c == sessions
            n == Len(c.recs)
            issued == Concat(c.stmts, Len(c.stmts))
        IN  /\ \A m \in 1..Len(c.stmts) :
                  Len(c.stmts[m]) >= 1 /\ Len(c.stmts[m]) <= batch_size
            /\ Len(issued) <= n
            /\ issued = SubSeq(c.recs, 1, Len(issued))
            /\ c.at = "returned" =>
                  /\ Len(c.stmts) = CeilDiv(n, batch_size)
                  /\ issued = c.recs
            /\ n = 0 =>
                  /\ c.at = "returned"
                  /\ c.stmts = <<>>
                  /\ c.opened = 0
                  /\ ~c.open
                  /\ ~c.exc
                  /\ c.result = 0

\* Two records went in two statements of one record each.
C33_Witness ==
    /\ pc = "call"
    /\ sessions.fn = "load_records"
    /\ sessions.at = "returned"
    /\ batch_size = 1
    /\ Len(sessions.recs) = 2
    /\ Len(sessions.stmts) = 2
    /\ sessions.result = 2


\* ------------------------------------------------------------------ the normalizer, column by column

\* TWAPParser.COLUMN_MAPPING: the canonical field of every mapped source
\* column.
COLUMN_MAPPING ==
    [twap_id |-> "twap_id", state_user |-> "wallet",
     state_timestamp |-> "ts", state_coin |-> "asset",
     state_side |-> "side", state_sz |-> "size_requested",
     state_executedSz |-> "size_executed",
     state_executedNtl |-> "notional_executed", status |-> "status",
     state_minutes |-> "duration_minutes"]

SourceColumns == DOMAIN COLUMN_MAPPING

CanonicalFields == { COLUMN_MAPPING[c] : c \in SourceColumns }

SourceOfField(f) == CHOOSE c \in SourceColumns : COLUMN_MAPPING[c] = f

\* The not-available sentinels a cell of a pandas row can hold: float
\* NaN, None, NaT and pandas.NA.
Sentinels == {"NaN", "None", "NaT", "NA"}

\* A cell of a row is a value with its Python type as kind, as the
\* timestamp values are; a sentinel is a cell of its own kind, and None is
\* also what the normalizer writes for null.
Sentinel(kind) == TsValue(kind, 0, FALSE, 0)

None == Sentinel("None")

Plain(v) == TsValue("value", v, FALSE, 0)

\* pd.isna of a scalar
isna(cell) == cell.kind \in {"NaN", "None", "NaT", "NA"}

\* _normalize_timestamp on any cell.  NaT is an instance of datetime
\* without tzinfo, and NaT.replace gives NaT; a float NaN takes the
\* Unix branch, where datetime.fromtimestamp raises; None and pandas.NA
\* are of no supported type.
normalize_timestamp_cell(cell) ==
    CASE cell.kind = "NaT" -> [raised |-> FALSE, value |-> cell]
      [] cell.kind = "NaN" -> [raised |-> TRUE, value |-> cell]
      [] OTHER ->
           LET r == normalize_timestamp(cell)
           IN  [raised |-> r.raised,
                value |-> TsValue("datetime", r.value, TRUE, 0)]

mapped_value_strict(row, col) ==
    IF col \in DOMAIN row
    THEN [raised |-> FALSE, value |-> row[col]]
    ELSE [raised |-> TRUE, value |-> None]

\* "if parquet_col in row.index: value = row[parquet_col]": the cell of
\* the column, then the timestamp conversion, then the test for NA; None
\* for a column the row has not.
mapped_value(row, col) ==
    IF col \in DOMAIN row
    THEN LET conv == IF COLUMN_MAPPING[col] = "ts"
                     THEN normalize_timestamp_cell(row[col])
                     ELSE [raised |-> FALSE, value |-> row[col]]
         IN  [raised |-> conv.raised,
              value |-> IF isna(conv.value) THEN None ELSE conv.value]
    ELSE [raised |-> FALSE, value |-> None]

\* pd.Timestamp.isoformat(): the string of the same clock reading and
\* offset.
isoformat(cell) == TsValue("str", cell.v, cell.aware, cell.tz)

\* "raw_payload = row.to_dict()" with every NA replaced by None and every
\* Timestamp by its ISO string.
raw_payload(row) ==
    [c \in DOMAIN row |->
        IF isna(row[c]) THEN None
        ELSE IF row[c].kind = "Timestamp" THEN isoformat(row[c])
        ELSE row[c]]

\* TWAPParser._row_to_record over all mapped columns: the record, or the
\* exception of the timestamp conversion.
row_to_record_columns(row, k) ==
    IF \E c \in SourceColumns : mapped_value(row, c).raised
    THEN [raised |-> TRUE, fields |-> <<>>, s3_object_key |-> k,
          raw_payload |-> <<>>]
    ELSE [raised |-> FALSE,
          fields |-> [f \in CanonicalFields |->
                         mapped_value(row, SourceOfField(f)).value],
          s3_object_key |-> k,
          raw_payload |-> raw_payload(row)]

\* The cells of a row without sentinel: a timestamp of one of three
\* types, the last one unsupported, and a plain value elsewhere.
TimestampCells ==
    { TsValue("unix", 2, FALSE, 0), TsValue("Timestamp", 2, TRUE, 1),
      TsValue("unsupported", 0, FALSE, 0) }

\* The rows to parse under key k: any subset of the mapped columns and of
\* a column that is not mapped, with at most one cell holding a sentinel.
RowInputs(k) ==
    { [row |-> [c \in present |->
                   IF c = na.col THEN Sentinel(na.kind)
                   ELSE IF c = "state_timestamp" THEN t
                   ELSE Plain(1)],
       key |-> k, out |-> <<>>] :
         present \in SUBSET (SourceColumns \cup {"extra"}),
         t \in TimestampCells,
         na \in [col : SourceColumns \cup {"extra", "none"},
                 kind : Sentinels] }

InitRow == InitCommon /\ norm \in RowInputs("A")

\* _row_to_record applied to the row.
NormalizeColumns ==
    /\ norm.out = <<>>
    /\ norm' = [norm EXCEPT
                   !.out = <<row_to_record_columns(norm.row, norm.key)>>]
    /\ UNCHANGED <<store, ledger, batch_size, loaderVars, processed, pc,
                 runVars, sessions, reply>>

NextRow == NormalizeColumns

SpecRow == InitRow /\ [][NextRow]_vars

\* C34: whatever subset of the mapped columns a row carries, the record
\* of its normalization has all ten canonical fields, the source key and
\* the raw copy, with null in the field of every absent column; an absent
\* column never raises, the key columns twap_id, state_user and
\* state_timestamp included: the only exception is that of the timestamp
\* conversion of a timestamp cell the row does carry.
C34_AbsentColumnsNull ==
    norm.out # <<>> =>
        LET row == norm.row
            out == norm.out[1]
        IN  /\ out.raised => "state_timestamp" \in DOMAIN row
            /\ out.raised =>
                  row["state_timestamp"].kind \in {"unsupported", "NaN", "None", "NA"}
            /\ ~out.raised =>
                  /\ DOMAIN out.fields =
                        {"twap_id", "wallet", "ts", "asset", "side",
                         "size_requested", "size_executed",
                         "notional_executed", "status", "duration_minutes"}
                  /\ out.s3_object_key = norm.key
                  /\ DOMAIN out.raw_payload = DOMAIN row
                  /\ \A c \in SourceColumns \ DOMAIN row :
                        out.fields[COLUMN_MAPPING[c]] = None

\* A row that carries none of the three key columns was normalized to a
\* record whose key fields are null and whose other fields are not.
C34_Witness ==
    /\ norm.out # <<>>
    /\ DOMAIN norm.row = SourceColumns \ {"twap_id", "state_user", "state_timestamp"}
    /\ ~norm.out[1].raised
    /\ norm.out[1].fields["twap_id"] = None
    /\ norm.out[1].fields["wallet"] = None
    /\ norm.out[1].fields["ts"] = None
    /\ norm.out[1].fields["asset"] = Plain(1)

\* C35: a not-available sentinel in a mapped column, the timestamp column
\* included, is normalized to null in its canonical field without error;
\* in the raw copy every not-available value is null; no canonical field
\* holds a sentinel other than null.
C35_NaBecomesNull ==
    (/\ norm.out # <<>>
     /\ \A c \in DOMAIN norm.row : norm.row[c].kind # "unsupported") =>
        LET row == norm.row
            out == norm.out[1]
        IN  /\ ~out.raised
            /\ \A c \in DOMAIN row :
                  row[c].kind \in Sentinels =>
                      /\ out.raw_payload[c] = None
                      /\ c \in SourceColumns =>
                            out.fields[COLUMN_MAPPING[c]] = None
            /\ \A f \in CanonicalFields :
                  out.fields[f].kind \notin {"NaN", "NaT", "NA"}

\* The timestamp cell held a float NaN and the normalization raised.
C35_Witness ==
    /\ norm.out # <<>>
    /\ "state_timestamp" \in DOMAIN norm.row
    /\ norm.row["state_timestamp"].kind = "NaN"
    /\ norm.out[1].raised


\* ------------------------------------------------------------------ the paginated listing

MaxPages == 2

\* The LastModified values of the objects of one page, in page order; the
\* empty page is a response without "Contents".
PageContents == SeqsUpTo({1, 2}, 2)

\* The object at place j of page p.
S3Object(p, j, last_modified) ==
    [Key |-> <<p, j>>, LastModified |-> last_modified, Size |-> 1]

\* The pages S3 holds under the prefix: page p is truncated when a page
\* follows it, and carries the continuation token of that page unless
\* the token is lost (0 stands for no token).
PageChains(most) ==
    UNION { [1..n -> [Contents : PageContents, has_token : BOOLEAN]] :
               n \in 1..most }

Page(chain, p) ==
    [Contents |-> [j \in 1..Len(chain[p].Contents) |->
                      S3Object(p, j, chain[p].Contents[j])],
     IsTruncated |-> p < Len(chain),
     NextContinuationToken |->
        IF p < Len(chain) /\ chain[p].has_token THEN p + 1 ELSE 0]

\* s3.list_objects_v2: the first page when no ContinuationToken is
\* passed, the page of the token otherwise.
list_objects_v2(chain, continuation_token) ==
    Page(chain, IF continuation_token = 0 THEN 1 ELSE continuation_token)

\* A cutoff: none, or an instant.
Cutoffs == { [given |-> FALSE, at |-> 0] } \cup { [given |-> TRUE, at |-> t] : t \in {1, 2} }

listed_entry(obj) ==
    [key |-> obj.Key, last_modified |-> obj.LastModified, size |-> obj.Size]

keep_after_cutoff(contents, since) ==
    LET keep(obj) == ~(since.given /\ obj.LastModified <= since.at)
        kept == SelectSeq(contents, keep)
    IN  [j \in 1..Len(kept) |-> listed_entry(kept[j])]

\* The loop over response["Contents"]: an object older than the cutoff is
\* skipped, the others are appended as key, last_modified and size.
keep_since(contents, since) ==
    LET keep(obj) == ~(since.given /\ obj.LastModified < since.at)
        kept == SelectSeq(contents, keep)
    IN  [j \in 1..Len(kept) |-> listed_entry(kept[j])]

\* A call of list_objects(since) against a chain of at most `most` pages;
\* the request numbered fails_at raises ClientError (0: none does).
ListInputs(most) ==
    { [chain |-> chain, since |-> since, fails_at |-> f, at |-> "start",
       continuation_token |-> 0, objects |-> <<>>, requests |-> 0] :
         chain \in PageChains(most), since \in Cutoffs, f \in 0..most }

InitList == InitCommon /\ batch_size = 1 /\ norm \in ListInputs(MaxPages)

\* "objects = []; continuation_token = None"
ListStart ==
    /\ norm.at = "start"
    /\ norm' = [norm EXCEPT !.at = "loop"]
    /\ UNCHANGED <<store, ledger, batch_size, loaderVars, processed, pc,
                 runVars, sessions, reply>>

\* One turn of "while True": the request, the objects of its page, and
\* the break and return when the page is not truncated; ClientError is
\* raised again.
ListRequest ==
    /\ norm.at = "loop"
    /\ norm.requests <= MaxPages
    /\ LET response == list_objects_v2(norm.chain, norm.continuation_token)
       IN  norm' =
             IF norm.requests + 1 = norm.fails_at
             THEN [norm EXCEPT !.requests = @ + 1, !.at = "raised"]
             ELSE [norm EXCEPT
                     !.requests = @ + 1,
                     !.objects = @ \o keep_since(response.Contents,
                                                 norm.since),
                     !.at = IF response.IsTruncated THEN "loop"
                            ELSE "returned",
                     !.continuation_token =
                        IF response.IsTruncated
                        THEN response.NextContinuationToken ELSE @]
    /\ UNCHANGED <<store, ledger, batch_size, loaderVars, processed, pc,
                 runVars, sessions, reply>>

NextList == ListStart \/ ListRequest

SpecList == InitList /\ [][NextList]_vars /\ WF_vars(NextList)

\* Every truncated page carries the token of the next page, and no
\* request fails.
ChainIntact ==
    /\ \A p \in 1..(Len(norm.chain) - 1) : norm.chain[p].has_token
    /\ norm.fails_at = 0

\* All objects of all pages in page order.
AllListed ==
    LET pages == [p \in 1..Len(norm.chain) |->
                     [j \in 1..Len(norm.chain[p].Contents) |->
                         [key |-> <<p, j>>,
                          last_modified |-> norm.chain[p].Contents[j],
                          size |-> 1]]]
    IN  Concat(pages, Len(pages))

AtOrAfterCutoff(entry) ==
    ~norm.since.given \/ entry.last_modified >= norm.since.at

\* C36: when every truncated page carries the token of the next page and
\* no request fails, list_objects comes to return, after one request per
\* page, the objects of all pages whose last_modified is at or after the
\* cutoff (all of them without cutoff), each once and in page order.
C36_CompleteListing ==
    (norm.at = "start" /\ ChainIntact) ~>
        (/\ norm.at = "returned"
         /\ norm.requests = Len(norm.chain)
         /\ norm.objects = SelectSeq(AllListed, AtOrAfterCutoff)
         /\ \A i \in 1..Len(norm.objects) : \A j \in 1..Len(norm.objects) :
               norm.objects[i].key = norm.objects[j].key => i = j)

\* Two requests returned the objects of two pages, less one of the first
\* page that is older than the cutoff.
C36_Witness ==
    /\ norm.at = "returned"
    /\ ChainIntact
    /\ Len(norm.chain) = 2
    /\ norm.requests = 2
    /\ norm.since.given
    /\ Len(AllListed) = 4
    /\ Len(norm.objects) = 3
    /\ norm.objects[1].key = <<1, 2>>
    /\ norm.objects[1].last_modified = norm.since.at
    /\ norm.objects[3].key = <<2, 2>>


\* ------------------------------------------------------------------ incremental runs whose ledger writes succeed

\* A turn of the loop of run_incremental in which no
\* mark_object_processed call raises.
ProcessNextMarked ==
    /\ ProcessNext
    /\ \A i \in 1..Len(outcome'.writes) : ~outcome'.writes[i].raised

NextMarked ==
    \/ S3Put
    \/ StartIncremental
    \/ StartFails
    \/ ProcessNextMarked
    \/ FinishRun
    \/ ProcessExit

SpecMarked == Init /\ [][NextMarked]_vars

RECURSIVE SumRowsIngested(_)
\* SELECT sum(rows_ingested) FROM etl_s3_ingest_log
SumRowsIngested(ldg) ==
    IF ldg = {} THEN 0
    ELSE LET e == CHOOSE x \in ldg : TRUE
         IN  e.rows_ingested + SumRowsIngested(ldg \ {e})

\* C37: after every incremental run of a sequence that began with an
\* empty store and an empty ledger, in which every ledger write
\* succeeded, the rows_ingested of all ledger entries add up to the
\* number of rows in the store.
C37_LedgerSumIsStoreSize ==
    pc # "running" => SumRowsIngested(ledger) = Cardinality(store)

\* A run has ended with three ledger entries: a file that added two
\* rows, a file that loaded without adding a row, and a failed file.
C37_Witness ==
    /\ pc = "exited"
    /\ Cardinality(store) = 2
    /\ \E a \in ledger : a.rows_ingested = 2 /\ a.error_text = NULL
    /\ \E b \in ledger : b.rows_ingested = 0 /\ b.error_text = NULL
    /\ \E c \in ledger : c.error_text # NULL
    /\ SumRowsIngested(ledger) = 2


\* C38: a process in single-key mode exits with status 0 exactly when
\* the result of its file is success (with 1 when get_object_metadata
\* raised and there is no result); a process in incremental mode whose
\* listing and read of the processed keys succeeded exits with status 0
\* whatever the number of files that failed.
C38_ExitStatus ==
    /\ (pc = "exited" /\ log[1] = LogSingle) =>
          /\ outcome.stage # "none"
          /\ exit_code = 0 <=> outcome.success
          /\ exit_code \in {0, 1}
    /\ (pc = "fatal" /\ log[1] = LogSingle) => exit_code = 1
    /\ (pc = "exited" /\ log[1] = LogStarting) => exit_code = 0

\* An incremental run in which no file succeeded and two failed has
\* exited with status 0.
C38_Witness ==
    /\ pc = "exited"
    /\ log[1] = LogStarting
    /\ log[Len(log)] = LogCompleted(0, 2)
    /\ \E e \in ledger : e.error_text # NULL
    /\ exit_code = 0


\* ------------------------------------------------------------------ a local file

\* The source key process_local_file parses the file of a path under:
\* f"local:{filepath}".
LocalKey == [A |-> "local:A", B |-> "local:B", C |-> "local:C"]

LogLocal == Line("Processing local file", <<>>)

process_local_file_marked(st, ldg, content, k, bs, read_fail, failAt) ==
    LET r == process_s3_object(st, ldg, k, 0, content, bs, read_fail,
                               failAt, FALSE, FALSE)
    IN  [store |-> r.store, ledger |-> r.ledger, stage |-> r.stage,
         success |-> r.success, rows |-> r.rows]

\* process_local_file(loader, filepath) on the store st and the ledger
\* ldg, for a file of the given content.  read_fail: pd.read_parquet
\* raises; failAt: the statement of load_records the database fails.
\* Every exception is caught and gives False.
process_local_file(st, ldg, content, k, bs, read_fail, failAt) ==
    IF read_fail
    THEN [store |-> st, ledger |-> ldg, stage |-> "read",
          success |-> FALSE, rows |-> 0]
    ELSE LET p == parse_parquet(content, k)
         IN  IF p.raised
             THEN [store |-> st, ledger |-> ldg, stage |-> "parse",
                   success |-> FALSE, rows |-> 0]
             ELSE IF p.records = <<>>
             THEN [store |-> st, ledger |-> ldg, stage |-> "empty",
                   success |-> TRUE, rows |-> 0]
             ELSE LET l == load_records(st, p.records, k, bs, failAt)
                  IN  IF l.raised
                      THEN [store |-> l.table, ledger |-> ldg,
                            stage |-> "load", success |-> FALSE,
                            rows |-> 0]
                      ELSE [store |-> l.table, ledger |-> ldg,
                            stage |-> "loaded", success |-> TRUE,
                            rows |-> l.rows]

\* main() with --local-file: process_local_file on the file of a path,
\* then exit 0 on success, else 1.  The file holds what some object of
\* the bucket held at some time.
LocalFile ==
    /\ pc = "idle"
    /\ pc' = "exited"
    /\ \E f \in Keys, v \in {1, 2} :
          LET content == Content(f, v)
          IN  \E flt \in { x \in Faults(content, batch_size) : ~x.mark_fail } :
                 LET res == process_local_file(store, ledger, content,
                                               LocalKey[f], batch_size,
                                               flt.dl_fail, flt.failAt)
                 IN  /\ store' = res.store
                     /\ ledger' = res.ledger
                     /\ outcome' = [key |-> LocalKey[f], last_modified |-> 0,
                                    stage |-> res.stage,
                                    success |-> res.success,
                                    rows |-> res.rows, writes |-> <<>>,
                                    replaced |-> {}]
                     /\ exit_code' = main_exit(FALSE, res.success)
    /\ log' = <<LogLocal>>
    /\ UNCHANGED <<otherVars, batch_size, loaderVars, processed, bucket,
                   objects, new_objects, idx, success_count, fail_count,
                   attempted, repaired, crashed>>

NextLocal == NextMarked \/ LocalFile

SpecLocal == Init /\ [][NextLocal]_vars

\* C39: a process that handles a local file leaves the ledger as it was
\* and reads no processed keys, whether the file loads, holds no record
\* or fails; when it fails, and when the file holds no record, the store
\* is as it was too.
C39_LocalLeavesLedger ==
    [][(pc = "idle" /\ log' = <<LogLocal>>) =>
          /\ ledger' = ledger
          /\ processed' = processed
          /\ ~outcome'.success => store' = store
          /\ outcome'.stage = "empty" => (outcome'.success /\ store' = store)
          /\ outcome'.stage = "loaded" => outcome'.success]_vars

\* A local file failed in its load, after S3 files had been loaded and
\* marked: the ledger holds nothing under the key of the local file and
\* the store no row of it.
C39_Witness ==
    /\ pc = "exited"
    /\ log = <<LogLocal>>
    /\ outcome.stage = "load"
    /\ ~outcome.success
    /\ exit_code = 1
    /\ ledger # {}
    /\ store # {}
    /\ \A e \in ledger : e.s3_object_key # outcome.key
    /\ \A r \in store : r.s3_object_key # outcome.key
====
